---- MODULE Spec2Model ----
(***************************************************************************)
(* Parallel Fast Walsh-Hadamard Transform over elliptic-curve group        *)
(* elements (github.com/Han-16/fwhtist, package internal/fwht).            *)
(*                                                                         *)
(* Group elements are points of the curve y^2 = x^3 + 3 (the shape of      *)
(* bn254 G1), held in affine (X, Y) or Jacobian (X, Y, Z) coordinates over *)
(* a prime field.  The field is scaled down to F_7: the curve then has 13  *)
(* points (12 affine ones and the point at infinity), a group of prime     *)
(* order, with generator (1, 2) as in bn254.  Coordinate arithmetic is     *)
(* computed formula by formula, so conversions are real computations.      *)
(***************************************************************************)
EXTENDS Integers, Sequences, FiniteSets, TLC

(***************************************************************************)
(* Bounds of the model.                                                    *)
(***************************************************************************)
\* Longest input vector of a fine-grained (interleaved) run.
MaxLen == 16
\* Longest input vector of a whole-call run, drawn over every point choice.
FnMaxLen == 4
\* Input elements of a whole-call run are k*G for k in 0..MaxScalar.
MaxScalar == 2
\* Largest positive workers argument, and largest GOMAXPROCS(0).
MaxWorkers == 3
MaxProcs == 2
\* Non-positive workers arguments range over -MaxNegWorkers..0.
MaxNegWorkers == 1

(***************************************************************************)
(* fp.Element: the base field.                                             *)
(***************************************************************************)
FieldP == 7

Fp == 0 .. (FieldP - 1)

FAdd(a, b) == (a + b) % FieldP

FSub(a, b) == (a - b + FieldP) % FieldP

FNeg(a) == (FieldP - a) % FieldP

FMul(a, b) == (a * b) % FieldP

FSquare(a) == FMul(a, a)

FDouble(a) == FAdd(a, a)

\* fp.Element.Inverse: x^-1, and 0 for x = 0.
FInverse(a) == IF a = 0 THEN 0 ELSE CHOOSE b \in 1 .. (FieldP - 1) : FMul(a, b) = 1

(***************************************************************************)
(* bn254.G1Affine and bn254.G1Jac.                                         *)
(***************************************************************************)
Aff(x, y) == [X |-> x, Y |-> y]

Jac(x, y, z) == [X |-> x, Y |-> y, Z |-> z]

\* The zero value of G1Affine, which the library reads as the point at infinity.
AffZero == Aff(0, 0)

\* G1Affine.IsInfinity
AffIsInfinity(a) == a.X = 0 /\ a.Y = 0

\* G1Affine.Equal, as eqSlices spells it out coordinate by coordinate.
AffEqual(a, b) == a.X = b.X /\ a.Y = b.Y

\* G1Jac.FromAffine
FromAffine(a) == IF AffIsInfinity(a) THEN Jac(1, 1, 0) ELSE Jac(a.X, a.Y, 1)

\* G1Affine.FromJacobian: one field inversion per element.
FromJacobian(p) ==
    IF p.Z = 0 THEN Aff(0, 0)
    ELSE LET a == FInverse(p.Z)
             b == FSquare(a)
         IN  Aff(FMul(p.X, b), FMul(FMul(p.Y, b), a))

\* G1Jac.Neg
JacNeg(p) == Jac(p.X, FNeg(p.Y), p.Z)

\* G1Jac.DoubleAssign (dbl-2007-bl, a = 0)
DoubleAssign(p) ==
    LET XX == FSquare(p.X)
        YY == FSquare(p.Y)
        YYYY == FSquare(YY)
        ZZ == FSquare(p.Z)
        S == FDouble(FSub(FSub(FSquare(FAdd(p.X, YY)), XX), YYYY))
        M == FAdd(FDouble(XX), XX)
        Z3 == FSub(FSub(FSquare(FAdd(p.Z, p.Y)), YY), ZZ)
        X3 == FSub(FSquare(M), FDouble(S))
        Y3 == FSub(FMul(FSub(S, X3), M), FDouble(FDouble(FDouble(YYYY))))
    IN  Jac(X3, Y3, Z3)

\* G1Jac.AddAssign: p + q (add-2007-bl), doubling when p = q.
AddAssign(p, q) ==
    IF p.Z = 0 THEN q
    ELSE IF q.Z = 0 THEN p
    ELSE LET Z1Z1 == FSquare(q.Z)
             Z2Z2 == FSquare(p.Z)
             U1 == FMul(q.X, Z2Z2)
             U2 == FMul(p.X, Z1Z1)
             S1 == FMul(FMul(q.Y, p.Z), Z2Z2)
             S2 == FMul(FMul(p.Y, q.Z), Z1Z1)
         IN  IF U1 = U2 /\ S1 = S2 THEN DoubleAssign(p)
             ELSE LET H == FSub(U2, U1)
                      I == FSquare(FDouble(H))
                      J == FMul(H, I)
                      r == FDouble(FSub(S2, S1))
                      V == FMul(U1, I)
                      X3 == FSub(FSub(FSub(FSquare(r), J), V), V)
                      Y3 == FSub(FMul(FSub(V, X3), r), FDouble(FMul(S1, J)))
                      Z3 == FMul(FSub(FSub(FSquare(FAdd(p.Z, q.Z)), Z1Z1), Z2Z2), H)
                  IN  Jac(X3, Y3, Z3)

\* G1Jac.Equal: both at infinity, or equal after cross-multiplying by Z.
JacEqual(p, q) ==
    IF p.Z = 0 THEN q.Z = 0
    ELSE IF q.Z = 0 THEN FALSE
    ELSE LET pZ2 == FSquare(p.Z)
             qZ2 == FSquare(q.Z)
         IN  /\ FMul(p.X, qZ2) = FMul(q.X, pZ2)
             /\ FMul(FMul(p.Y, qZ2), q.Z) = FMul(FMul(q.Y, pZ2), p.Z)

\* G1Jac.ScalarMultiplication by a natural number k.
RECURSIVE ScalarMultiplication(_, _)
ScalarMultiplication(p, k) ==
    IF k = 0 THEN Jac(1, 1, 0) ELSE AddAssign(ScalarMultiplication(p, k - 1), p)

\* bn254.Generators: the affine generator of G1.
GenAff == Aff(1, 2)

\* The order of the group generated by GenAff on the scaled-down curve.
GroupOrder == 13

\* k*G in affine form, as the drivers build their inputs.
PointOf == [k \in 0 .. (GroupOrder - 1) |->
               FromJacobian(ScalarMultiplication(FromAffine(GenAff), k))]

(***************************************************************************)
(* Integer helpers of the Go code: bit operations, min, max.               *)
(***************************************************************************)
RECURSIVE BitAnd(_, _)
BitAnd(a, b) ==
    IF a = 0 \/ b = 0 THEN 0
    ELSE 2 * BitAnd(a \div 2, b \div 2) + (IF a % 2 = 1 /\ b % 2 = 1 THEN 1 ELSE 0)

RECURSIVE BitOr(_, _)
BitOr(a, b) ==
    IF a = 0 THEN b
    ELSE IF b = 0 THEN a
    ELSE 2 * BitOr(a \div 2, b \div 2) + (IF a % 2 = 1 \/ b % 2 = 1 THEN 1 ELSE 0)

RECURSIVE Pow2(_)
Pow2(r) == IF r = 0 THEN 1 ELSE 2 * Pow2(r - 1)

\* bits.Len: the number of bits needed to represent n.
RECURSIVE BitsLen(_)
BitsLen(n) == IF n = 0 THEN 0 ELSE 1 + BitsLen(n \div 2)

Min(a, b) == IF a < b THEN a ELSE b

Max(a, b) == IF a > b THEN a ELSE b

\* TRUE, once v has been evaluated: a loop written as a recursion passes each
\* iteration's value on already computed, as the Go loop does.
Strict(v) == v = v

\* A vector of length n is a function on 0..n-1, as a Go slice is indexed.
VLen(v) == Cardinality(DOMAIN v)

NilVec == << >>

(***************************************************************************)
(* Entry checks shared by every transform variant.                         *)
(***************************************************************************)
\* isPowerOfTwo
isPowerOfTwo(n) == n > 0 /\ BitAnd(n, n - 1) = 0

\* The mutant: the size test done with isPowerOfTwo before the n = 0 test.
ValidateLenPow2First(n) ==
    IF ~isPowerOfTwo(n) THEN "size" ELSE IF n = 0 THEN "empty" ELSE "ok"

\* The mutant: the size test rejects only odd lengths.
ValidateLenOddOnly(n) ==
    IF n = 0 THEN "empty" ELSE IF n % 2 # 0 /\ n # 1 THEN "size" ELSE "ok"

\* n == 0 returns (nil, nil); n&(n-1) != 0 returns the size error.
ValidateLen(n) ==
    IF n = 0 THEN "empty" ELSE IF BitAnd(n, n - 1) # 0 THEN "size" ELSE "ok"

\* The mutant: the workers argument used as it came.
EffWorkersRaw(w, procs) == w

\* workers <= 0 => GOMAXPROCS(0); then coerced to >= 1.
EffWorkers(w, procs) ==
    LET w1 == IF w <= 0 THEN procs ELSE w
    IN  IF w1 < 1 THEN 1 ELSE w1

\* parallelRange runs fn(0, n) on the calling thread below this length.
ParThreshold == 1024

ParInline(n, w) == w <= 1 \/ n < ParThreshold

(***************************************************************************)
(* The butterfly.                                                          *)
(***************************************************************************)
\* The mutant: the sum taken of ta with itself.
BflySumDoubled(ta, tc) == AddAssign(ta, ta)

\* sum := ta; sum.AddAssign(&tc)
BflySum(ta, tc) == AddAssign(ta, tc)

\* The mutant: the difference taken without negating tc.
BflyDiffNoNeg(ta, tc) == AddAssign(ta, tc)

\* The mutant: the difference taken the other way round, c - a.
BflyDiffSwapped(ta, tc) == AddAssign(tc, JacNeg(ta))

\* tc.Neg(&tc); diff := ta; diff.AddAssign(&tc)
BflyDiff(ta, tc) == AddAssign(ta, JacNeg(tc))

\* The mutant: a is overwritten first, and the difference taken from it.
ButterflyInPlace(buf, a, c) ==
    LET sum == BflySum(buf[a], buf[c])
    IN  [buf EXCEPT ![a] = sum, ![c] = BflyDiff(sum, buf[c])]

\* One butterfly on the pair (a, c): both operands copied, then both written.
Butterfly(buf, a, c) ==
    LET ta == buf[a]
        tc == buf[c]
    IN  [buf EXCEPT ![a] = BflySum(ta, tc), ![c] = BflyDiff(ta, tc)]

Task(b0, b1, j0, j1) == [b0 |-> b0, b1 |-> b1, j0 |-> j0, j1 |-> j1]

\* for b := t.b0; b < t.b1; b++ { for j := t.j0; j < t.j1; j++ { butterfly } }
RECURSIVE RunTaskFrom(_, _, _, _, _)
RunTaskFrom(buf, t, step, b, j) ==
    IF b >= t.b1 THEN buf
    ELSE IF j >= t.j1 THEN RunTaskFrom(buf, t, step, b + 1, t.j0)
    ELSE LET base == b * (2 * step)
             nxt == Butterfly(buf, base + j, base + j + step)
         IN  IF Strict(nxt) THEN RunTaskFrom(nxt, t, step, b, j + 1) ELSE buf

RunTask(buf, t, step) == RunTaskFrom(buf, t, step, t.b0, t.j0)

RECURSIVE RunTasks(_, _, _)
RunTasks(buf, tasks, step) ==
    IF tasks = << >> THEN buf
    ELSE LET nxt == RunTask(buf, Head(tasks), step)
         IN  IF Strict(nxt) THEN RunTasks(nxt, Tail(tasks), step) ELSE buf

(***************************************************************************)
(* Stage schedulers.                                                       *)
(***************************************************************************)
\* The mutant: every block range loses its last block.
RECURSIVE BlockTilesShort(_, _, _, _)
BlockTilesShort(b0, nb, chunkB, step) ==
    IF b0 < nb
    THEN << Task(b0, Min(b0 + chunkB, nb) - 1, 0, step) >> \o BlockTilesShort(b0 + chunkB, nb, chunkB, step)
    ELSE << >>

\* The mutant: the last block range is not cut at nb.
RECURSIVE BlockTilesNoClamp(_, _, _, _)
BlockTilesNoClamp(b0, nb, chunkB, step) ==
    IF b0 < nb
    THEN << Task(b0, b0 + chunkB, 0, step) >> \o BlockTilesNoClamp(b0 + chunkB, nb, chunkB, step)
    ELSE << >>

\* for b0 := 0; b0 < nb; b0 += chunkB: block ranges, each over all of [0, step).
RECURSIVE BlockTiles(_, _, _, _)
BlockTiles(b0, nb, chunkB, step) ==
    IF b0 < nb
    THEN << Task(b0, Min(b0 + chunkB, nb), 0, step) >> \o BlockTiles(b0 + chunkB, nb, chunkB, step)
    ELSE << >>

\* The mutant: column tiles one column too wide, so neighbours overlap.
RECURSIVE ColumnTilesOverlap(_, _, _, _)
ColumnTilesOverlap(j0, nb, tile, step) ==
    IF j0 < step
    THEN << Task(0, nb, j0, Min(j0 + tile + 1, step)) >> \o ColumnTilesOverlap(j0 + tile, nb, tile, step)
    ELSE << >>

\* The mutant: the last column tile is not cut at step.
RECURSIVE ColumnTilesNoClamp(_, _, _, _)
ColumnTilesNoClamp(j0, nb, tile, step) ==
    IF j0 < step
    THEN << Task(0, nb, j0, j0 + tile) >> \o ColumnTilesNoClamp(j0 + tile, nb, tile, step)
    ELSE << >>

\* for j0 := 0; j0 < step; j0 += tile: column tiles, each over all blocks.
RECURSIVE ColumnTiles(_, _, _, _)
ColumnTiles(j0, nb, tile, step) ==
    IF j0 < step
    THEN << Task(0, nb, j0, Min(j0 + tile, step)) >> \o ColumnTiles(j0 + tile, nb, tile, step)
    ELSE << >>

\* targetTasks := workers * 3
TargetTasks(w) == IF w * 3 < w THEN w ELSE w * 3

\* The task list of one stage of the 2D-tiled scheduler.
TasksTiled(n, step, w) ==
    LET block == 2 * step
        nb == n \div block
        target == TargetTasks(w)
    IN  IF nb >= target
        THEN BlockTiles(0, nb, (nb + target - 1) \div target, step)
        ELSE LET jt0 == target \div Max(1, nb)
                 jt1 == IF jt0 < 1 THEN 1 ELSE jt0
                 jTiles == IF jt1 > step THEN step ELSE jt1
                 tile == (step + jTiles - 1) \div jTiles
             IN  ColumnTiles(0, nb, tile, step)

\* The mutant: block chunks one block too long, so neighbours overlap.
RECURSIVE BlockChunksOverlap(_, _, _, _, _)
BlockChunksOverlap(w, eff, nb, chunk, step) ==
    IF w < eff /\ w * chunk < nb
    THEN << Task(w * chunk, Min(w * chunk + chunk + 1, nb), 0, step) >>
             \o BlockChunksOverlap(w + 1, eff, nb, chunk, step)
    ELSE << >>

\* for w := 0; w < eff; w++ { b0 := w*chunk; if b0 >= nb { break } ... }
RECURSIVE BlockChunks(_, _, _, _, _)
BlockChunks(w, eff, nb, chunk, step) ==
    IF w < eff /\ w * chunk < nb
    THEN << Task(w * chunk, Min(w * chunk + chunk, nb), 0, step) >>
             \o BlockChunks(w + 1, eff, nb, chunk, step)
    ELSE << >>

\* The mutant: one consumer per worker, however few the tasks.
PlanTiledAllWorkers(n, step, w) ==
    LET tasks == TasksTiled(n, step, w)
    IN  [inline |-> Len(tasks) <= 1, tasks |-> tasks, W |-> w, chan |-> TRUE]

\* The mutant: a stage is handed to the pool even when it has a single task.
PlanTiledNeverInline(n, step, w) ==
    LET tasks == TasksTiled(n, step, w)
    IN  [inline |-> FALSE, tasks |-> tasks, W |-> Min(w, Len(tasks)), chan |-> TRUE]

\* One stage of the 2D-tiled scheduler: a single task runs inline; otherwise
\* the tasks are queued on a channel drained by min(workers, len(tasks)) workers.
PlanTiled(n, step, w) ==
    LET tasks == TasksTiled(n, step, w)
    IN  [inline |-> Len(tasks) <= 1, tasks |-> tasks,
         W |-> Min(w, Len(tasks)), chan |-> TRUE]

\* The mutant: the chunk length is rounded down, so the last blocks of a
\* stage are given to nobody.
PlanBlockFloor(n, step, w) ==
    LET block == 2 * step
        nb == n \div block
        eff == IF w > nb THEN nb ELSE w
    IN  IF eff <= 1 \/ nb <= 1
        THEN [inline |-> TRUE, tasks |-> << Task(0, nb, 0, step) >>, W |-> 0, chan |-> FALSE]
        ELSE LET tasks == BlockChunks(0, eff, nb, nb \div eff, step)
             IN  [inline |-> FALSE, tasks |-> tasks, W |-> Len(tasks), chan |-> FALSE]

\* One stage of the block-only scheduler: serial when eff <= 1 or nb <= 1;
\* otherwise one goroutine per chunk of ceil(nb/eff) blocks.
PlanBlock(n, step, w) ==
    LET block == 2 * step
        nb == n \div block
        eff == IF w > nb THEN nb ELSE w
    IN  IF eff <= 1 \/ nb <= 1
        THEN [inline |-> TRUE, tasks |-> << Task(0, nb, 0, step) >>, W |-> 0, chan |-> FALSE]
        ELSE LET tasks == BlockChunks(0, eff, nb, (nb + eff - 1) \div eff, step)
             IN  [inline |-> FALSE, tasks |-> tasks, W |-> Len(tasks), chan |-> FALSE]

(***************************************************************************)
(* The transform variants.                                                 *)
(***************************************************************************)
Variants == {"Par2D", "ParBlock", "ParBatch", "ParBatchProfile", "ParProfile", "Serial"}

\* Which stage scheduler a variant uses.
Sched(v) ==
    CASE v \in {"Par2D", "ParBatchProfile", "ParProfile"} -> "tiled"
      [] v \in {"ParBlock", "ParBatch"} -> "block"
      [] OTHER -> "serial"

\* Which output conversion a variant uses.
Conv(v) == IF v \in {"ParBatch", "ParBatchProfile"} THEN "batch" ELSE "point"

Plan(v, n, step, w) ==
    IF Sched(v) = "tiled" THEN PlanTiled(n, step, w) ELSE PlanBlock(n, step, w)

(***************************************************************************)
(* Coordinate conversion of whole vectors.                                 *)
(***************************************************************************)
\* outJac[i].FromAffine(&in[i]) for every i
ToJacAll(v) == [i \in DOMAIN v |-> FromAffine(v[i])]

\* outAff[i].FromJacobian(&outJac[i]) for every i
ToAffAll(buf) == [i \in DOMAIN buf |-> FromJacobian(buf[i])]

\* setInfinity: the pair the batched converter writes for a point with Z = 0.
AffSetInfinity == Aff(0, 1)

\* The indices with Z != 0, in increasing order (nonZero[j].idx, j from 1).
RECURSIVE NonZeroFrom(_, _)
NonZeroFrom(buf, i) ==
    IF i >= VLen(buf) THEN << >>
    ELSE (IF buf[i].Z = 0 THEN << >> ELSE << i >>) \o NonZeroFrom(buf, i + 1)

\* acc[j]: the product of the first j non-zero Z.
RECURSIVE PrefixProd(_, _, _)
PrefixProd(buf, nz, j) ==
    IF j = 1 THEN buf[nz[1]].Z ELSE FMul(PrefixProd(buf, nz, j - 1), buf[nz[j]].Z)

\* The backward pass: invZ[j] = invAll * acc[j-1], then invAll *= Z_j.
RECURSIVE BackwardSweep(_, _, _, _, _)
BackwardSweep(buf, nz, j, invAll, invZ) ==
    IF j < 1 THEN invZ
    ELSE LET v == IF j = 1 THEN invAll ELSE FMul(invAll, PrefixProd(buf, nz, j - 1))
         IN  BackwardSweep(buf, nz, j - 1, FMul(invAll, buf[nz[j]].Z), [invZ EXCEPT ![j] = v])

\* BatchJacToAffG1Par: one inversion of the product of the non-zero Z, then
\* X/Z^2 and Y/Z^3 per element; an element with Z = 0 gets setInfinity.
BatchJacToAffG1Par(buf, w) ==
    LET nz == NonZeroFrom(buf, 0)
        k == Len(nz)
        invAll == FInverse(PrefixProd(buf, nz, k))
        invZ == BackwardSweep(buf, nz, k, invAll, [j \in 1 .. k |-> 0])
        pos(i) == CHOOSE j \in 1 .. k : nz[j] = i
    IN  [i \in DOMAIN buf |->
            IF buf[i].Z = 0 THEN AffSetInfinity
            ELSE LET inv2 == FSquare(invZ[pos(i)])
                     inv3 == FMul(inv2, invZ[pos(i)])
                 IN  Aff(FMul(buf[i].X, inv2), FMul(buf[i].Y, inv3))]

\* The output conversion of a variant.
ConvertOut(v, buf, w) ==
    IF Conv(v) = "batch" THEN BatchJacToAffG1Par(buf, w) ELSE ToAffAll(buf)

(***************************************************************************)
(* Whole calls, as functions of their arguments.                           *)
(***************************************************************************)
\* The mutant: the pair index built without the shift by r+1.
SerialAIdxNoShift(k, r) == BitOr((k \div Pow2(r)) * Pow2(r), BitAnd(k, Pow2(r) - 1))

\* The mutant: the pair index built without the low bits of k.
SerialAIdxNoLow(k, r) == (k \div Pow2(r)) * Pow2(r + 1)

\* aIdx = ((k >> r) << (r+1)) | (k & ((1<<r)-1))
SerialAIdx(k, r) == BitOr((k \div Pow2(r)) * Pow2(r + 1), BitAnd(k, Pow2(r) - 1))

\* for k := 0; k < half; k++ { butterfly(aIdx, aIdx + dist) }
RECURSIVE SerialStageFrom(_, _, _, _)
SerialStageFrom(buf, r, k, half) ==
    IF k >= half THEN buf
    ELSE LET a == SerialAIdx(k, r)
             nxt == Butterfly(buf, a, a + Pow2(r))
         IN  IF Strict(nxt) THEN SerialStageFrom(nxt, r, k + 1, half) ELSE buf

\* for r := 0; r < stages; r++
RECURSIVE SerialStagesFrom(_, _, _, _)
SerialStagesFrom(buf, r, stages, half) ==
    IF r >= stages THEN buf
    ELSE LET nxt == SerialStageFrom(buf, r, 0, half)
         IN  IF Strict(nxt) THEN SerialStagesFrom(nxt, r + 1, stages, half) ELSE buf

\* MatVecHadamardSerialInPlace: the contents of the caller's vector after a
\* successful call.
SerialResult(v) ==
    LET len == VLen(v)
        jac == SerialStagesFrom(ToJacAll(v), 0, BitsLen(len) - 1, len \div 2)
    IN  IF Strict(jac) THEN ToAffAll(jac) ELSE NilVec

\* for step := 1; step < n; step <<= 1: the stage's tasks run one after another.
RECURSIVE StagesFrom(_, _, _, _, _)
StagesFrom(v, buf, n, step, w) ==
    IF step >= n THEN buf
    ELSE LET nxt == RunTasks(buf, Plan(v, n, step, w).tasks, step)
         IN  IF Strict(nxt) THEN StagesFrom(v, nxt, n, step * 2, w) ELSE buf

\* A parallel variant's result vector after a successful call with w workers.
ParResult(v, vec, w) ==
    LET jac == StagesFrom(v, ToJacAll(vec), VLen(vec), 1, w)
    IN  IF Strict(jac) THEN ConvertOut(v, jac, w) ELSE NilVec

\* A whole call of variant v: the error, the returned vector and the caller's
\* vector afterwards.
CallResult(v, vec, wArg, procs) ==
    LET n == VLen(vec)
        chk == ValidateLen(n)
        w == EffWorkers(wArg, procs)
    IN  IF chk = "empty" THEN [err |-> "nil", out |-> NilVec, input |-> vec]
        ELSE IF chk = "size" THEN [err |-> "size", out |-> NilVec, input |-> vec]
        ELSE IF v = "Serial" THEN [err |-> "nil", out |-> NilVec, input |-> SerialResult(vec)]
        ELSE [err |-> "nil", out |-> ParResult(v, vec, w), input |-> vec]

(***************************************************************************)
(* The state of one transform call.                                        *)
(***************************************************************************)
VARIABLES
    variant,   \* which transform function is called
    orig,      \* the caller's vector before the first call
    in0,       \* the caller's vector when the current call started
    input,     \* the caller's vector now (in)
    wArg,      \* the workers argument
    procs,     \* runtime.GOMAXPROCS(0)
    round,     \* 1 for the first call, 2 for the call on the first call's result
    pc,        \* where the calling thread is
    n,         \* len(in)
    workers,   \* the effective worker count
    ci,        \* loop index i of the conversion loops
    step,      \* the stage's butterfly distance
    mt,        \* the calling thread's position in an inline or serial stage
    buf,       \* outJac (buf in the serial variant)
    workCh,    \* the stage's task channel, filled and closed before the workers start
    gor,       \* the goroutines started by the call and not yet joined
    wg,        \* the WaitGroup counter
    outAff,    \* the returned vector
    err,       \* the returned error
    prof,      \* the FWHTProfile of a profiling variant, with its local stageIdx
    lib,       \* the helper packages (cache, msm): files, call arguments, results
    hist       \* history: what has run so far

vars == << variant, orig, in0, input, wArg, procs, round, pc, n, workers, ci, step,
           mt, buf, workCh, gor, wg, outAff, err, prof, lib, hist >>

ZeroJac == Jac(0, 0, 0)

NoTask == Task(0, 0, 0, 0)

NoPos == [task |-> NoTask, b |-> 0, j |-> 0, r |-> 0, k |-> 0]

\* Stage number (from 1) of butterfly distance s.
StageOf(s) == BitsLen(s)

NumStages(len) == IF len = 0 THEN 0 ELSE BitsLen(len) - 1

NoHist(len) ==
    [convIn |-> 0, convOut |-> 0, spawned |-> 0,
     started |-> [r \in 1 .. NumStages(len) |-> 0],
     finished |-> [r \in 1 .. NumStages(len) |-> 0],
     touch |-> [i \in 0 .. (len - 1) |-> {}],
     taken |-> << >>,
     stages |-> << >>, stage0 |-> << >>, profWrites |-> << >>]

\* var prof FWHTProfile: the zero value (durations are not part of the model,
\* a written PerStage entry holds 1).
NoProf == [N |-> 0, Workers |-> 0, Stages |-> 0, PerStage |-> << >>, stageIdx |-> 0]

\* Nothing of the helper packages is in use.
NoLib == [fs |-> << >>, args |-> << >>, ret |-> << >>]

IsProfile(v) == v \in {"ParBatchProfile", "ParProfile"}

\* The mutant: the counting loop runs while t <= n.
RECURSIVE ProfStagesFromIncl(_, _)
ProfStagesFromIncl(t, len) == IF t <= len THEN 1 + ProfStagesFromIncl(2 * t, len) ELSE 0

\* for t := 1; t < n; t <<= 1 { prof.Stages++ }
RECURSIVE ProfStagesFrom(_, _)
ProfStagesFrom(t, len) == IF t < len THEN 1 + ProfStagesFrom(2 * t, len) ELSE 0

\* prof.PerStage[stageIdx] = time.Since(tStage); stageIdx++ at the end of a
\* stage of a profiling variant; an index outside PerStage panics.
ProfStageEnd(v, p) ==
    IF ~IsProfile(v) THEN [prof |-> p, ok |-> TRUE]
    ELSE IF p.stageIdx < Len(p.PerStage)
    THEN [prof |-> [p EXCEPT !.PerStage = [@ EXCEPT ![p.stageIdx + 1] = 1], !.stageIdx = @ + 1],
          ok |-> TRUE]
    ELSE [prof |-> p, ok |-> FALSE]

\* The stage at distance s begins on buffer b.
StageStarted(h, s, b) == [h EXCEPT !.stages = Append(@, s), !.stage0 = b]

(***************************************************************************)
(* Inputs.                                                                 *)
(***************************************************************************)
\* Scalars k_i = (a*i + b) mod m: all identity, all G (the drivers' const
\* mode), P alternating with identity, and a spread of distinct points.
Patterns == { << 0, 0, 1 >>, << 0, 1, GroupOrder >>, << 1, 1, 2 >>, << 5, 2, GroupOrder >> }

PatternVec(len, p) == [i \in 0 .. (len - 1) |-> PointOf[(p[1] * i + p[2]) % p[3]]]

PatternInputs == { PatternVec(len, p) : len \in 0 .. MaxLen, p \in Patterns }

FullInputs == UNION { [0 .. (len - 1) -> { PointOf[k] : k \in 0 .. MaxScalar }] : len \in 0 .. FnMaxLen }

WorkerArgs == (0 - MaxNegWorkers) .. MaxWorkers

InitWith(inputs) ==
    /\ variant \in Variants
    /\ input \in inputs
    /\ orig = input
    /\ in0 = input
    /\ wArg \in WorkerArgs
    /\ procs \in 1 .. MaxProcs
    \* GOMAXPROCS is read only for a non-positive argument; the serial variant takes none.
    /\ (wArg > 0 => procs = 1)
    /\ (variant = "Serial" => wArg = 1)
    /\ round = 1
    /\ pc = "start"
    /\ n = VLen(input)
    /\ workers = 0
    /\ ci = 0
    /\ step = 0
    /\ mt = NoPos
    /\ buf = << >>
    /\ workCh = << >>
    /\ gor = << >>
    /\ wg = 0
    /\ outAff = NilVec
    /\ err = "nil"
    /\ prof = NoProf
    /\ lib = NoLib
    /\ hist = NoHist(VLen(input))

Init == InitWith(PatternInputs)

\* [P, identity] for every group element P.
PairInputs == { [i \in 0 .. 1 |-> IF i = 0 THEN PointOf[k] ELSE AffZero] : k \in 0 .. (GroupOrder - 1) }

InitFn == InitWith(FullInputs \cup PatternInputs \cup PairInputs)

(***************************************************************************)
(* The calling thread.                                                     *)
(***************************************************************************)
\* The entry checks; on success the Jacobian working buffer is allocated.
Validate ==
    /\ pc = "start"
    /\ LET chk == ValidateLen(n)
       IN  IF chk = "ok"
           THEN /\ workers' = (IF variant = "Serial" THEN 1 ELSE EffWorkers(wArg, procs))
                /\ buf' = [i \in 0 .. (n - 1) |-> ZeroJac]
                /\ pc' = "toJac"
                /\ err' = err
                /\ prof' = (IF IsProfile(variant)
                            THEN [NoProf EXCEPT !.N = n, !.Workers = EffWorkers(wArg, procs),
                                                !.Stages = ProfStagesFrom(1, n),
                                                !.PerStage = [x \in 1 .. ProfStagesFrom(1, n) |-> 0]]
                            ELSE prof)
           ELSE /\ err' = (IF chk = "size" THEN "size" ELSE "nil")
                /\ pc' = "done"
                /\ prof' = (IF IsProfile(variant) THEN [NoProf EXCEPT !.N = n] ELSE prof)
                /\ UNCHANGED << workers, buf >>
    /\ UNCHANGED << lib, variant, orig, in0, input, wArg, procs, round, n, ci, step, mt,
                    workCh, gor, wg, outAff, hist >>

\* One iteration of the Affine -> Jacobian loop; parallelRange runs it on the
\* calling thread (the serial variant always does).
ConvertInStep ==
    /\ pc = "toJac"
    /\ variant = "Serial" \/ ParInline(n, workers)
    /\ ci < n
    /\ buf' = [buf EXCEPT ![ci] = FromAffine(input[ci])]
    /\ hist' = [hist EXCEPT !.convIn = @ + 1]
    /\ IF ci + 1 < n
       THEN ci' = ci + 1 /\ UNCHANGED << pc, step >>
       ELSE ci' = 0 /\ pc' = "stage" /\ step' = 1
    /\ UNCHANGED << prof, lib, variant, orig, in0, input, wArg, procs, round, n, workers, mt,
                    workCh, gor, wg, outAff, err >>

\* The first (b, j) at or after (b, j) that the task's two loops visit.
RECURSIVE Norm(_, _, _)
Norm(t, b, j) ==
    IF b >= t.b1 THEN [end |-> TRUE, b |-> b, j |-> j]
    ELSE IF j >= t.j1 THEN Norm(t, b + 1, t.j0)
    ELSE [end |-> FALSE, b |-> b, j |-> j]

AIndex(s, b, j) == b * (2 * s) + j

\* The mutant: the partner taken a whole block further on.
CIndexBlock(s, b, j) == AIndex(s, b, j) + 2 * s

CIndex(s, b, j) == AIndex(s, b, j) + s

Access(t, a, c) == [task |-> t, a |-> a, c |-> c]

Touched(h, t, a, c) ==
    [h EXCEPT !.touch = [@ EXCEPT ![a] = @ \cup { Access(t, a, c) },
                                  ![c] = @ \cup { Access(t, a, c) }]]

Started(h, s) == [h EXCEPT !.started = [@ EXCEPT ![StageOf(s)] = @ + 1]]

Finished(h, s) == [h EXCEPT !.finished = [@ EXCEPT ![StageOf(s)] = @ + 1]]

ClearTouch(h) == [h EXCEPT !.touch = [i \in DOMAIN @ |-> {}], !.taken = << >>]

\* A goroutine of the channel-draining pool, before it takes a task.
PoolWorker(s) ==
    [st |-> "idle", chan |-> TRUE, step |-> s, task |-> NoTask, b |-> 0, j |-> 0,
     ta |-> ZeroJac, tc |-> ZeroJac]

\* A goroutine of the block-only scheduler, started on its own block range.
BlockWorker(s, t) ==
    LET pos == Norm(t, t.b0, t.j0)
    IN  [st |-> IF pos.end THEN "finished" ELSE "run", chan |-> FALSE, step |-> s,
         task |-> t, b |-> pos.b, j |-> pos.j, ta |-> ZeroJac, tc |-> ZeroJac]

\* The head of the stage loop of a parallel variant: leave the loop, run the
\* stage inline, or hand its tasks to goroutines.
StageBegin ==
    /\ pc = "stage"
    /\ Sched(variant) # "serial"
    /\ IF step >= n
       THEN /\ pc' = "toAff"
            /\ ci' = 0
            /\ outAff' = [i \in 0 .. (n - 1) |-> AffZero]
            /\ UNCHANGED << mt, workCh, gor, wg, hist >>
       ELSE LET plan == Plan(variant, n, step, workers)
            IN  IF plan.inline
                THEN /\ pc' = "inline"
                     /\ mt' = (IF plan.tasks = << >> THEN [NoPos EXCEPT !.b = 0]
                               ELSE LET t == plan.tasks[1]
                                        pos == Norm(t, t.b0, t.j0)
                                    IN  [NoPos EXCEPT !.task = t, !.b = pos.b, !.j = pos.j])
                     /\ hist' = StageStarted(ClearTouch(hist), step, buf)
                     /\ UNCHANGED << ci, workCh, gor, wg, outAff >>
                ELSE /\ pc' = "wait"
                     /\ workCh' = (IF plan.chan THEN plan.tasks ELSE << >>)
                     /\ wg' = wg + plan.W
                     /\ gor' = gor \o (IF plan.chan
                                       THEN [g \in 1 .. plan.W |-> PoolWorker(step)]
                                       ELSE [g \in 1 .. plan.W |-> BlockWorker(step, plan.tasks[g])])
                     /\ hist' = [StageStarted(ClearTouch(hist), step, buf) EXCEPT !.spawned = @ + plan.W]
                     /\ UNCHANGED << ci, mt, outAff >>
    /\ UNCHANGED << prof, lib, variant, orig, in0, input, wArg, procs, round, n, workers, step,
                    buf, err >>

\* One butterfly of a stage that runs inline on the calling thread.
InlineStep ==
    /\ pc = "inline"
    /\ LET t == mt.task
           pos == Norm(t, mt.b, mt.j)
       IN  IF pos.end
           THEN LET e == ProfStageEnd(variant, prof)
                IN  /\ pc' = (IF e.ok THEN "stage" ELSE "panic")
                    /\ prof' = e.prof
                    /\ hist' = (IF IsProfile(variant)
                                THEN [hist EXCEPT !.profWrites = Append(@, prof.stageIdx)]
                                ELSE hist)
                    /\ step' = 2 * step
                    /\ mt' = NoPos
                    /\ UNCHANGED buf
           ELSE LET a == AIndex(step, pos.b, pos.j)
                    c == CIndex(step, pos.b, pos.j)
                IN  /\ buf' = Butterfly(buf, a, c)
                    /\ hist' = Finished(Started(Touched(hist, t, a, c), step), step)
                    /\ mt' = [mt EXCEPT !.b = pos.b, !.j = pos.j + 1]
                    /\ UNCHANGED << pc, step, prof >>
    /\ UNCHANGED << lib, variant, orig, in0, input, wArg, procs, round, n, workers, ci,
                    workCh, gor, wg, outAff, err >>

\* The mutant: the scheduler resumes as soon as the queue is empty.
WaitReadyQueueEmpty(cnt, ch) == ch = << >>

\* wg.Wait() returns when the counter is zero.
WaitReady(cnt, ch) == cnt = 0

\* The barrier at the end of a dispatched stage.
WaitReturn ==
    /\ pc = "wait"
    /\ WaitReady(wg, workCh)
    /\ LET e == ProfStageEnd(variant, prof)
       IN  /\ pc' = (IF e.ok THEN "stage" ELSE "panic")
           /\ prof' = e.prof
           /\ hist' = (IF IsProfile(variant)
                       THEN [hist EXCEPT !.profWrites = Append(@, prof.stageIdx)]
                       ELSE hist)
    /\ step' = 2 * step
    /\ gor' = SelectSeq(gor, LAMBDA g : g.st # "exit")
    /\ UNCHANGED << lib, variant, orig, in0, input, wArg, procs, round, n, workers, ci, mt,
                    buf, workCh, wg, outAff, err >>

\* One butterfly of the serial variant: stage r, butterfly k.
SerialStep ==
    /\ pc = "stage"
    /\ Sched(variant) = "serial"
    /\ LET stages == BitsLen(n) - 1
           half == n \div 2
       IN  IF mt.r >= stages
           THEN /\ pc' = "toAff"
                /\ ci' = 0
                /\ mt' = NoPos
                /\ UNCHANGED << buf, hist, step >>
           ELSE IF mt.k >= half
           THEN /\ mt' = [mt EXCEPT !.r = @ + 1, !.k = 0]
                /\ step' = 2 * step
                /\ UNCHANGED << buf, pc, ci, hist >>
           ELSE LET a == SerialAIdx(mt.k, mt.r)
                    c == a + Pow2(mt.r)
                IN  /\ buf' = Butterfly(buf, a, c)
                    /\ hist' = Finished(Started(Touched(IF mt.k = 0
                                                        THEN StageStarted(ClearTouch(hist), Pow2(mt.r), buf)
                                                        ELSE hist,
                                                        NoTask, a, c), Pow2(mt.r)), Pow2(mt.r))
                    /\ mt' = [mt EXCEPT !.k = @ + 1]
                    /\ UNCHANGED << pc, ci, step >>
    /\ UNCHANGED << prof, lib, variant, orig, in0, input, wArg, procs, round, n, workers,
                    workCh, gor, wg, outAff, err >>

\* The mutant: every variant converts into the caller's vector.
ConvertOutStepInPlace ==
    /\ pc = "toAff"
    /\ Conv(variant) = "point"
    /\ variant = "Serial" \/ ParInline(n, workers)
    /\ ci < n
    /\ input' = [input EXCEPT ![ci] = FromJacobian(buf[ci])]
    /\ hist' = [hist EXCEPT !.convOut = @ + 1]
    /\ IF ci + 1 < n
       THEN ci' = ci + 1 /\ pc' = pc
       ELSE ci' = 0 /\ pc' = "done"
    /\ UNCHANGED << prof, lib, variant, orig, in0, wArg, procs, round, n, workers, step, mt,
                    buf, workCh, gor, wg, outAff, err >>

\* One iteration of the per-element Jacobian -> Affine loop; the serial
\* variant overwrites the caller's vector.
ConvertOutStep ==
    /\ pc = "toAff"
    /\ Conv(variant) = "point"
    /\ variant = "Serial" \/ ParInline(n, workers)
    /\ ci < n
    /\ IF variant = "Serial"
       THEN input' = [input EXCEPT ![ci] = FromJacobian(buf[ci])] /\ UNCHANGED outAff
       ELSE outAff' = [outAff EXCEPT ![ci] = FromJacobian(buf[ci])] /\ UNCHANGED input
    /\ hist' = [hist EXCEPT !.convOut = @ + 1]
    /\ IF ci + 1 < n
       THEN ci' = ci + 1 /\ pc' = pc
       ELSE ci' = 0 /\ pc' = "done"
    /\ UNCHANGED << prof, lib, variant, orig, in0, wArg, procs, round, n, workers, step, mt,
                    buf, workCh, gor, wg, err >>

\* The batched Jacobian -> Affine conversion.
ConvertOutBatch ==
    /\ pc = "toAff"
    /\ Conv(variant) = "batch"
    /\ outAff' = BatchJacToAffG1Par(buf, workers)
    /\ hist' = [hist EXCEPT !.convOut = n]
    /\ pc' = "done"
    /\ UNCHANGED << prof, lib, variant, orig, in0, input, wArg, procs, round, n, workers, ci,
                    step, mt, buf, workCh, gor, wg, err >>

(***************************************************************************)
(* The goroutines of a dispatched stage.                                   *)
(***************************************************************************)
\* for t := range workCh: receive the next task.
GTake(g) ==
    /\ gor[g].st = "idle"
    /\ workCh # << >>
    /\ LET t == Head(workCh)
           pos == Norm(t, t.b0, t.j0)
       IN  gor' = [gor EXCEPT ![g] = [@ EXCEPT !.task = t, !.b = pos.b, !.j = pos.j,
                                                !.st = IF pos.end THEN "idle" ELSE "run"]]
    /\ workCh' = Tail(workCh)
    /\ hist' = [hist EXCEPT !.taken = Append(@, Head(workCh))]
    /\ UNCHANGED << prof, lib, variant, orig, in0, input, wArg, procs, round, pc, n, workers, ci,
                    step, mt, buf, wg, outAff, err >>

\* The mutant: a goroutine returns without wg.Done().
GExitNoDone(g) ==
    /\ \/ gor[g].st = "idle" /\ workCh = << >>
       \/ gor[g].st = "finished"
    /\ gor' = [gor EXCEPT ![g] = [@ EXCEPT !.st = "exit"]]
    /\ UNCHANGED << prof, lib, variant, orig, in0, input, wArg, procs, round, pc, n, workers, ci,
                    step, mt, buf, workCh, wg, outAff, err, hist >>

\* The channel is closed and drained, or the block range is done: defer wg.Done().
GExit(g) ==
    /\ \/ gor[g].st = "idle" /\ workCh = << >>
       \/ gor[g].st = "finished"
    /\ gor' = [gor EXCEPT ![g] = [@ EXCEPT !.st = "exit"]]
    /\ wg' = wg - 1
    /\ UNCHANGED << prof, lib, variant, orig, in0, input, wArg, procs, round, pc, n, workers, ci,
                    step, mt, buf, workCh, outAff, err, hist >>

\* ta := *a; tc := *c
GRead(g) ==
    /\ gor[g].st = "run"
    /\ LET w == gor[g]
           a == AIndex(w.step, w.b, w.j)
           c == CIndex(w.step, w.b, w.j)
       IN  /\ gor' = [gor EXCEPT ![g] = [@ EXCEPT !.st = "loaded", !.ta = buf[a], !.tc = buf[c]]]
           /\ hist' = Started(Touched(hist, w.task, a, c), w.step)
    /\ UNCHANGED << prof, lib, variant, orig, in0, input, wArg, procs, round, pc, n, workers, ci,
                    step, mt, buf, workCh, wg, outAff, err >>

\* *a = sum; *c = diff; then the next (b, j) of the task.
GWrite(g) ==
    /\ gor[g].st = "loaded"
    /\ LET w == gor[g]
           a == AIndex(w.step, w.b, w.j)
           c == CIndex(w.step, w.b, w.j)
           pos == Norm(w.task, w.b, w.j + 1)
       IN  /\ buf' = [buf EXCEPT ![a] = BflySum(w.ta, w.tc), ![c] = BflyDiff(w.ta, w.tc)]
           /\ gor' = [gor EXCEPT ![g] = [@ EXCEPT !.b = pos.b, !.j = pos.j,
                         !.st = IF ~pos.end THEN "run" ELSE IF w.chan THEN "idle" ELSE "finished"]]
           /\ hist' = Finished(hist, w.step)
    /\ UNCHANGED << prof, lib, variant, orig, in0, input, wArg, procs, round, pc, n, workers, ci,
                    step, mt, workCh, wg, outAff, err >>

Goroutine == \E g \in 1 .. Len(gor) : GTake(g) \/ GExit(g) \/ GRead(g) \/ GWrite(g)

Next ==
    \/ Validate
    \/ ConvertInStep
    \/ StageBegin
    \/ InlineStep
    \/ WaitReturn
    \/ SerialStep
    \/ ConvertOutStep
    \/ ConvertOutBatch
    \/ Goroutine

Spec == Init /\ [][Next]_vars

(***************************************************************************)
(* Whole calls as single steps, and a second call on the first's result.   *)
(***************************************************************************)
\* The vector a finished call hands back: the serial variant's is the
\* caller's own vector, overwritten in place.
Result == IF variant = "Serial" THEN input ELSE outAff

CallWhole ==
    /\ pc = "start"
    /\ LET res == CallResult(variant, input, wArg, procs)
       IN  /\ err' = res.err
           /\ outAff' = res.out
           /\ input' = res.input
    /\ pc' = "done"
    /\ UNCHANGED << prof, lib, variant, orig, in0, wArg, procs, round, n, workers, ci, step, mt,
                    buf, workCh, gor, wg, hist >>

\* The drivers' check of H(H(x)): the transform is called again on its result.
CallAgain ==
    /\ pc = "done"
    /\ round = 1
    /\ err = "nil"
    /\ n > 0
    /\ round' = 2
    /\ input' = Result
    /\ in0' = Result
    /\ outAff' = NilVec
    /\ pc' = "start"
    /\ UNCHANGED << prof, lib, variant, orig, wArg, procs, n, workers, ci, step, mt, buf, workCh,
                    gor, wg, err, hist >>

NextFn == CallWhole \/ CallAgain

SpecFn == InitFn /\ [][NextFn]_vars

(***************************************************************************)
(* The helpers of util.go called on their own, and the task construction   *)
(* of a stage.  They run on the same state: input is the affine argument,  *)
(* buf the Jacobian argument `in` of the converter, outAff the slice a     *)
(* helper builds, gor and wg the goroutines and WaitGroup of               *)
(* parallelRange, workCh the task list, mt the calling thread's locals.    *)
(***************************************************************************)
\* Z coordinates of the converter's short arguments range over 0..MaxZ.
MaxZ == 4
\* Longest short argument of the converter.
BatchMaxLen == 3
\* Long arguments have ParThreshold - 1 .. ParThreshold + MaxOver elements.
MaxOver == 3
\* Task construction is explored for n = 2^1 .. 2^MaxPlanExp.
MaxPlanExp == 10
\* ... and for 1 .. MaxPlanWorkers workers.
MaxPlanWorkers == 8
\* Chunk bounds of parallelRange are computed for up to MaxChunkWorkers workers.
MaxChunkWorkers == 40
\* The converter's sequential loops advance LoopBlock iterations in one step.
LoopBlock == 32

\* for p < n { p <<= 1 }
RECURSIVE nextPow2From(_, _)
nextPow2From(p, len) == IF p < len THEN nextPow2From(2 * p, len) ELSE p

\* The mutant: the doubling loop stops one step early.
nextPow2Early(len) == IF len <= 1 THEN 1 ELSE nextPow2From(1, (len + 1) \div 2)

\* nextPow2
nextPow2(len) == IF len <= 1 THEN 1 ELSE nextPow2From(1, len)

\* PadPointsToPow2: make() yields zero values, copy() fills the front.
PadPointsToPow2(in) ==
    LET len == VLen(in)
    IN  IF len = 0 \/ isPowerOfTwo(len) THEN in
        ELSE [i \in 0 .. (nextPow2(len) - 1) |-> IF i < len THEN in[i] ELSE Aff(0, 0)]

\* The mutant: ceil replaced by floor in the chunk length.
PRChunkFloor(len, w) == len \div w

\* chunk := (n + workers - 1) / workers
PRChunk(len, w) == (len + w - 1) \div w

\* The [i0, i1) of the goroutine started by iteration w of parallelRange's loop.
PRBounds(len, chunk, w) == [a |-> w * chunk, b |-> Min(w * chunk + chunk, len)]

\* The chunks parallelRange's loop starts goroutines for, in order.
RECURSIVE PRChunksFrom(_, _, _, _)
PRChunksFrom(len, w, chunk, i) ==
    IF i < w /\ i * chunk < len
    THEN << PRBounds(len, chunk, i) >> \o PRChunksFrom(len, w, chunk, i + 1)
    ELSE << >>

PRChunks(len, w) == PRChunksFrom(len, w, PRChunk(len, w), 0)

\* The mutant: no element is taken for an identity.
IsZeroZNever(p) == FALSE

\* in[i].Z.IsZero()
IsZeroZ(p) == p.Z = 0

\* The mutant: the backward pass multiplies by the prefix product one too far.
SweepInvShifted(j, invAll, acc) == IF j = 0 THEN invAll ELSE FMul(invAll, acc[j + 1])

\* invZ[j] of the backward pass (j counts from 0, acc is indexed from 1).
SweepInv(j, invAll, acc) == IF j = 0 THEN invAll ELSE FMul(invAll, acc[j])

\* The mutant: the backward pass stops before j = 0.
SweepMoreSkipFirst(j) == j >= 1

\* for j := k - 1; j >= 0; j--
SweepMore(j) == j >= 0

\* The locals of the calling thread inside a helper.
NoLocals ==
    [nonZero |-> << >>, posOf |-> << >>, acc |-> << >>, invAll |-> 0, invZ |-> << >>,
     j |-> 0, prN |-> 0, chunk |-> 0, w |-> 0, planStep |-> 0]

\* History of a helper call: the arguments of Inverse (with the number of
\* goroutines alive at that moment), the backward-pass iterations done, the
\* calls of fn started and the calls of fn returned.
NoUtilHist == [inv |-> << >>, swept |-> 0, calls |-> << >>, returned |-> 0]

Helpers == {"PadPointsToPow2", "parallelRange", "BatchJacToAffG1Par", "stageTasks"}

\* Short Jacobian vectors over every choice of Z, and long ones with two
\* identities among elements of every non-zero Z.
ShortJacInputs ==
    UNION { { [i \in 0 .. (len - 1) |-> Jac(i + 1, (2 * i + 3) % FieldP, zs[i] % FieldP)] :
                zs \in [0 .. (len - 1) -> 0 .. MaxZ] } : len \in 0 .. BatchMaxLen }

LongJacInputs ==
    { [i \in 0 .. (len - 1) |->
          Jac((i % 5) + 1, (i % 3) + 2, IF i \in {5, 700} THEN 0 ELSE 1 + (i % (FieldP - 1)))] :
        len \in (ParThreshold - 1) .. (ParThreshold + MaxOver) }

RangeLens == (0 .. 2) \cup ((ParThreshold - 1) .. (ParThreshold + MaxOver))

InitHelper(v, vec, jvec, len, wset) ==
    /\ variant = v
    /\ input = vec
    /\ orig = vec
    /\ in0 = vec
    /\ wArg \in wset
    /\ procs \in 1 .. MaxProcs
    /\ (wArg > 0 => procs = 1)
    /\ round = 1
    /\ pc = "call"
    /\ n = len
    /\ workers = 0
    /\ ci = 0
    /\ step = 0
    /\ mt = NoLocals
    /\ buf = jvec
    /\ workCh = << >>
    /\ gor = << >>
    /\ wg = 0
    /\ outAff = NilVec
    /\ err = "nil"
    /\ prof = NoProf
    /\ lib = NoLib
    /\ hist = NoUtilHist

InitUtil ==
    \/ \E vec \in PatternInputs : InitHelper("PadPointsToPow2", vec, << >>, VLen(vec), {1})
    \/ \E len \in RangeLens : InitHelper("parallelRange", << >>, << >>, len, WorkerArgs)
    \/ \E jvec \in ShortJacInputs \cup LongJacInputs :
          InitHelper("BatchJacToAffG1Par", << >>, jvec, VLen(jvec), WorkerArgs)
    \/ \E e \in 1 .. MaxPlanExp :
          InitHelper("stageTasks", << >>, << >>, Pow2(e), 1 .. MaxPlanWorkers)
    \/ InitWith(PatternInputs)

\* PadPointsToPow2(in)
PadCall ==
    /\ pc = "call"
    /\ variant = "PadPointsToPow2"
    /\ outAff' = PadPointsToPow2(input)
    /\ pc' = "done"
    /\ UNCHANGED << prof, lib, variant, orig, in0, input, wArg, procs, round, n, workers, ci, step,
                    mt, buf, workCh, gor, wg, err, hist >>

\* parallelRange(n, workers, fn) with an fn that counts its visits of each index.
RangeCall ==
    /\ pc = "call"
    /\ variant = "parallelRange"
    /\ workers' = wArg
    /\ mt' = [mt EXCEPT !.prN = n]
    /\ outAff' = [i \in 0 .. (n - 1) |-> 0]
    /\ pc' = "prStart"
    /\ UNCHANGED << prof, lib, variant, orig, in0, input, wArg, procs, round, n, ci, step,
                    buf, workCh, gor, wg, err, hist >>

\* fn(a, b): the visit counter, or the converter's finishing loop over
\* nonZero[a .. b-1], which writes out[nonZero[j].idx].
FnApply(out, a, b) ==
    IF variant = "parallelRange"
    THEN [i \in DOMAIN out |-> IF a <= i /\ i < b THEN out[i] + 1 ELSE out[i]]
    ELSE [i \in DOMAIN out |->
             LET j == mt.posOf[i]
             IN  IF j > a /\ j <= b
                 THEN LET e == mt.nonZero[j]
                          inv2 == FSquare(mt.invZ[j])
                          inv3 == FMul(inv2, mt.invZ[j])
                      IN  IF e.idx = i
                          THEN Aff(FMul(buf[e.idx].X, inv2), FMul(buf[e.idx].Y, inv3))
                          ELSE out[i]
                 ELSE out[i]]

\* The head of parallelRange: fn(0, n) on the calling thread, or the chunk length.
PRStart ==
    /\ pc = "prStart"
    /\ IF ParInline(mt.prN, workers)
       THEN /\ outAff' = FnApply(outAff, 0, mt.prN)
            /\ hist' = [hist EXCEPT !.calls = Append(@, [a |-> 0, b |-> mt.prN, by |-> 0]),
                                    !.returned = @ + 1]
            /\ pc' = "done"
            /\ UNCHANGED mt
       ELSE /\ mt' = [mt EXCEPT !.chunk = PRChunk(mt.prN, workers), !.w = 0]
            /\ pc' = "prSpawn"
            /\ UNCHANGED << outAff, hist >>
    /\ UNCHANGED << prof, lib, variant, orig, in0, input, wArg, procs, round, n, workers, ci, step,
                    buf, workCh, gor, wg, err >>

\* One iteration of parallelRange's loop: wg.Add(1); go func(a, b).
PRSpawn ==
    /\ pc = "prSpawn"
    /\ IF mt.w < workers /\ mt.w * mt.chunk < mt.prN
       THEN LET c == PRBounds(mt.prN, mt.chunk, mt.w)
            IN  /\ gor' = Append(gor, [st |-> "ready", a |-> c.a, b |-> c.b])
                /\ wg' = wg + 1
                /\ mt' = [mt EXCEPT !.w = @ + 1]
                /\ pc' = pc
       ELSE /\ pc' = "prWait"
            /\ UNCHANGED << gor, wg, mt >>
    /\ UNCHANGED << prof, lib, variant, orig, in0, input, wArg, procs, round, n, workers, ci, step,
                    buf, workCh, outAff, err, hist >>

\* A goroutine of parallelRange enters fn(a, b).
PRFnCall(g) ==
    /\ pc \in {"prSpawn", "prWait"}
    /\ gor[g].st = "ready"
    /\ gor' = [gor EXCEPT ![g] = [@ EXCEPT !.st = "running"]]
    /\ hist' = [hist EXCEPT !.calls = Append(@, [a |-> gor[g].a, b |-> gor[g].b, by |-> g])]
    /\ UNCHANGED << prof, lib, variant, orig, in0, input, wArg, procs, round, pc, n, workers, ci,
                    step, mt, buf, workCh, wg, outAff, err >>

\* fn(a, b) returns in a goroutine of parallelRange: defer wg.Done().
PRFnReturn(g) ==
    /\ pc \in {"prSpawn", "prWait"}
    /\ gor[g].st = "running"
    /\ outAff' = FnApply(outAff, gor[g].a, gor[g].b)
    /\ gor' = [gor EXCEPT ![g] = [@ EXCEPT !.st = "exit"]]
    /\ wg' = wg - 1
    /\ hist' = [hist EXCEPT !.returned = @ + 1]
    /\ UNCHANGED << prof, lib, variant, orig, in0, input, wArg, procs, round, pc, n, workers, ci,
                    step, mt, buf, workCh, err >>

PRGoroutine == \E g \in 1 .. Len(gor) : PRFnCall(g) \/ PRFnReturn(g)

\* wg.Wait() at the end of parallelRange.
PRWait ==
    /\ pc = "prWait"
    /\ wg = 0
    /\ pc' = "done"
    /\ UNCHANGED << prof, lib, variant, orig, in0, input, wArg, procs, round, n, workers, ci, step,
                    mt, buf, workCh, gor, wg, outAff, err, hist >>

\* The entry of BatchJacToAffG1Par: out is allocated, workers coerced.
BatchCall ==
    /\ pc = "call"
    /\ variant = "BatchJacToAffG1Par"
    /\ outAff' = [i \in 0 .. (n - 1) |-> Aff(0, 0)]
    /\ IF n = 0
       THEN pc' = "done" /\ UNCHANGED << workers, mt >>
       ELSE /\ workers' = EffWorkers(wArg, procs)
            /\ mt' = [mt EXCEPT !.posOf = [i \in 0 .. (n - 1) |-> 0]]
            /\ pc' = "bCollect"
    /\ UNCHANGED << prof, lib, variant, orig, in0, input, wArg, procs, round, n, ci, step,
                    buf, workCh, gor, wg, err, hist >>

\* One iteration i of the loop that collects the non-zero Z, on the record
\* of nonZero, its index map and out.
CollectOne(r, i) ==
    IF IsZeroZ(buf[i])
    THEN [r EXCEPT !.out = [@ EXCEPT ![i] = AffSetInfinity]]
    ELSE [r EXCEPT !.nonZero = Append(@, [idx |-> i, z |-> buf[i].Z]),
                   !.posOf = [@ EXCEPT ![i] = Len(r.nonZero) + 1]]

\* for i := ...; i < stop; i++
RECURSIVE CollectFrom(_, _, _)
CollectFrom(r, i, stop) ==
    IF i >= stop THEN r
    ELSE LET nxt == CollectOne(r, i)
         IN  IF Strict(nxt) THEN CollectFrom(nxt, i + 1, stop) ELSE r

\* The next LoopBlock iterations of the collecting loop; after the last
\* iteration, k == 0 returns, otherwise acc[0] = nonZero[0].z.
BatchCollect ==
    /\ pc = "bCollect"
    /\ LET stop == Min(ci + LoopBlock, n)
           r == CollectFrom([nonZero |-> mt.nonZero, posOf |-> mt.posOf, out |-> outAff], ci, stop)
       IN  /\ outAff' = r.out
           /\ IF stop < n
              THEN /\ ci' = stop
                   /\ mt' = [mt EXCEPT !.nonZero = r.nonZero, !.posOf = r.posOf]
                   /\ pc' = pc
              ELSE /\ ci' = 0
                   /\ IF Len(r.nonZero) = 0
                      THEN /\ mt' = [mt EXCEPT !.nonZero = r.nonZero, !.posOf = r.posOf]
                           /\ pc' = "done"
                      ELSE /\ mt' = [mt EXCEPT !.nonZero = r.nonZero, !.posOf = r.posOf,
                                               !.acc = << r.nonZero[1].z >>, !.j = 1]
                           /\ pc' = "bPrefix"
    /\ UNCHANGED << prof, lib, variant, orig, in0, input, wArg, procs, round, n, workers, step,
                    buf, workCh, gor, wg, err, hist >>

\* for j := ...; j < stop; j++ { acc[j].Mul(&acc[j-1], &nonZero[j].z) }
RECURSIVE PrefixFrom(_, _, _, _)
PrefixFrom(acc, nz, j, stop) ==
    IF j >= stop THEN acc
    ELSE LET nxt == Append(acc, FMul(acc[j], nz[j + 1].z))
         IN  IF Strict(nxt) THEN PrefixFrom(nxt, nz, j + 1, stop) ELSE acc

\* The next LoopBlock iterations of the prefix-product loop.
BatchPrefix ==
    /\ pc = "bPrefix"
    /\ IF mt.j < Len(mt.nonZero)
       THEN LET stop == Min(mt.j + LoopBlock, Len(mt.nonZero))
            IN  /\ mt' = [mt EXCEPT !.acc = PrefixFrom(mt.acc, mt.nonZero, mt.j, stop),
                                    !.j = stop]
                /\ pc' = pc
       ELSE /\ pc' = "bInvert"
            /\ UNCHANGED mt
    /\ UNCHANGED << prof, lib, variant, orig, in0, input, wArg, procs, round, n, workers, ci, step,
                    buf, workCh, gor, wg, outAff, err, hist >>

\* invAll.Inverse(&acc[k-1]); invZ is allocated.
BatchInvert ==
    /\ pc = "bInvert"
    /\ LET k == Len(mt.nonZero)
       IN  /\ mt' = [mt EXCEPT !.invAll = FInverse(mt.acc[k]),
                               !.invZ = [j \in 1 .. k |-> 0], !.j = k - 1]
           /\ hist' = [hist EXCEPT !.inv = Append(@,
                          [arg |-> mt.acc[k],
                           live |-> Len(SelectSeq(gor, LAMBDA g : g.st # "exit"))])]
    /\ pc' = "bSweep"
    /\ UNCHANGED << prof, lib, variant, orig, in0, input, wArg, procs, round, n, workers, ci, step,
                    buf, workCh, gor, wg, outAff, err >>

\* One iteration j of the backward pass, on the record of invZ, invAll and j.
SweepOne(r, acc, nz) ==
    [invZ |-> [r.invZ EXCEPT ![r.j + 1] = SweepInv(r.j, r.invAll, acc)],
     invAll |-> FMul(r.invAll, nz[r.j + 1].z),
     j |-> r.j - 1,
     done |-> r.done + 1]

\* for ...; j >= 0 (and j > stop); j--
RECURSIVE SweepFrom(_, _, _, _)
SweepFrom(r, acc, nz, stop) ==
    IF ~(SweepMore(r.j) /\ r.j > stop) THEN r
    ELSE LET nxt == SweepOne(r, acc, nz)
         IN  IF Strict(nxt) THEN SweepFrom(nxt, acc, nz, stop) ELSE r

\* The next LoopBlock iterations of the backward pass; after the last,
\* parallelRange(k, workers, fn).
BatchSweep ==
    /\ pc = "bSweep"
    /\ IF SweepMore(mt.j)
       THEN LET r == SweepFrom([invZ |-> mt.invZ, invAll |-> mt.invAll, j |-> mt.j, done |-> 0],
                               mt.acc, mt.nonZero, mt.j - LoopBlock)
            IN  /\ mt' = [mt EXCEPT !.invZ = r.invZ, !.invAll = r.invAll, !.j = r.j]
                /\ hist' = [hist EXCEPT !.swept = @ + r.done]
                /\ pc' = pc
       ELSE /\ mt' = [mt EXCEPT !.prN = Len(mt.nonZero)]
            /\ pc' = "prStart"
            /\ UNCHANGED hist
    /\ UNCHANGED << prof, lib, variant, orig, in0, input, wArg, procs, round, n, workers, ci, step,
                    buf, workCh, gor, wg, outAff, err >>

\* The stage loop of the 2D-tiled transform, reduced to its task construction.
PlanCall ==
    /\ pc = "call"
    /\ variant = "stageTasks"
    /\ workers' = EffWorkers(wArg, procs)
    /\ step' = 1
    /\ pc' = "plan"
    /\ UNCHANGED << prof, lib, variant, orig, in0, input, wArg, procs, round, n, ci, mt,
                    buf, workCh, gor, wg, outAff, err, hist >>

\* The tasks of stage `step` are built; step <<= 1.
PlanStage ==
    /\ pc = "plan"
    /\ IF step < n
       THEN /\ workCh' = TasksTiled(n, step, workers)
            /\ mt' = [mt EXCEPT !.planStep = step]
            /\ step' = 2 * step
            /\ pc' = pc
       ELSE /\ pc' = "done"
            /\ UNCHANGED << workCh, mt, step >>
    /\ UNCHANGED << prof, lib, variant, orig, in0, input, wArg, procs, round, n, workers, ci,
                    buf, gor, wg, outAff, err, hist >>

NextUtil ==
    \/ PadCall
    \/ RangeCall
    \/ PRStart
    \/ PRSpawn
    \/ PRGoroutine
    \/ PRWait
    \/ BatchCall
    \/ BatchCollect
    \/ BatchPrefix
    \/ BatchInvert
    \/ BatchSweep
    \/ PlanCall
    \/ PlanStage
    \/ Validate

SpecUtil == InitUtil /\ [][NextUtil]_vars

(***************************************************************************)
(* Calls under a fair scheduler.  The Go runtime runs every runnable       *)
(* goroutine sooner or later (goroutines are preempted), so the calling    *)
(* thread and each goroutine taken alone is weakly fair.  A goroutine      *)
(* blocked on wg.Wait() or on an empty open channel is not runnable: its   *)
(* step is then not enabled.                                               *)
(***************************************************************************)
\* The steps of the thread that called the transform, or parallelRange.
CallerStep ==
    \/ Validate
    \/ ConvertInStep
    \/ StageBegin
    \/ InlineStep
    \/ WaitReturn
    \/ SerialStep
    \/ ConvertOutStep
    \/ ConvertOutBatch
    \/ RangeCall
    \/ PRStart
    \/ PRSpawn
    \/ PRWait

\* The steps of the g-th goroutine the call started: a worker of a stage or
\* a chunk of parallelRange.
WorkerStep(g) ==
    /\ g \in 1 .. Len(gor)
    /\ \/ GTake(g)
       \/ GExit(g)
       \/ GRead(g)
       \/ GWrite(g)
       \/ PRFnCall(g)
       \/ PRFnReturn(g)

NextFair ==
    \/ CallerStep
    \/ Goroutine
    \/ PRGoroutine

\* The transform calls of Spec and the parallelRange calls of SpecUtil.  The
\* schedule never reads an element's value, so one input per length is kept:
\* the vector of distinct points.
SpecFair ==
    /\ InitWith({ PatternVec(len, << 5, 2, GroupOrder >>) : len \in 0 .. MaxLen })
       \/ \E len \in RangeLens : InitHelper("parallelRange", << >>, << >>, len, WorkerArgs)
    /\ [][NextFair]_vars
    /\ WF_vars(CallerStep)
    /\ \A g \in 1 .. Max(MaxWorkers, MaxProcs) : WF_vars(WorkerStep(g))

(***************************************************************************)
(* The circuit's row gadget and the reference row routine of its witness  *)
(* generator.                                                              *)
(***************************************************************************)
\* hadamardTransformRow(g, rowIndex): g[j] added to or subtracted from the
\* result by the parity of OnesCount(rowIndex & j), over affine points
\* (G1Affine.Neg, G1Affine.Add), j running over the whole of g.
hadamardTransformRow(g, rowIndex) ==
    LET OnesCount[x \in 0 .. VLen(g)] == IF x = 0 THEN 0 ELSE (x % 2) + OnesCount[x \div 2]
        Neg(a) == Aff(a.X, FNeg(a.Y))
        Add(a, b) == FromJacobian(AddAssign(FromAffine(a), FromAffine(b)))
        result[j \in 0 .. (VLen(g) - 1)] ==
            LET odd == OnesCount[BitAnd(rowIndex, j)] % 2 = 1
                term == IF odd THEN Neg(g[j]) ELSE g[j]
            IN  IF j = 0 THEN term
                ELSE LET acc == result[j - 1]
                     IN  IF Strict(acc) /\ Strict(term) THEN Add(acc, term) ELSE acc
    IN  result[VLen(g) - 1]

\* Bits of a row index (NumBits of the circuit): G has 2^NumBits elements.
NumBits == 4

\* The mutant: the index bits are used from the most significant down.
computeFWHTRowMsbFirst(g, indexBits) ==
    LET Neg(a) == Aff(a.X, FNeg(a.Y))
        AddUnified(a, b) == FromJacobian(AddAssign(FromAffine(a), FromAffine(b)))
        numStages == Len(indexBits)
        stageG[s \in 0 .. numStages] ==
            IF s = 0 THEN g
            ELSE LET currentStageG == stageG[s - 1]
                 IN  [i \in 0 .. ((VLen(currentStageG) \div 2) - 1) |->
                         IF indexBits[numStages - s + 1] = 1
                         THEN AddUnified(currentStageG[2 * i], Neg(currentStageG[2 * i + 1]))
                         ELSE AddUnified(currentStageG[2 * i], currentStageG[2 * i + 1])]
    IN  stageG[numStages][0]

\* computeFWHTRow(curve, g, indexBits): stage s replaces the vector by the
\* half-length vector of Select(indexBits[s], p1 - p2, p1 + p2) over the
\* adjacent pairs (p1, p2); the one element left is returned.  AddUnified is
\* the complete addition of the emulated curve, (0,0) being the identity.
\* indexBits is 1-based here: indexBits[s] is the code's indexBits[s - 1].
computeFWHTRow(g, indexBits) ==
    LET Neg(a) == Aff(a.X, FNeg(a.Y))
        AddUnified(a, b) == FromJacobian(AddAssign(FromAffine(a), FromAffine(b)))
        numStages == Len(indexBits)
        stageG[s \in 0 .. numStages] ==
            IF s = 0 THEN g
            ELSE LET currentStageG == stageG[s - 1]
                 IN  [i \in 0 .. ((VLen(currentStageG) \div 2) - 1) |->
                         IF indexBits[s] = 1
                         THEN AddUnified(currentStageG[2 * i], Neg(currentStageG[2 * i + 1]))
                         ELSE AddUnified(currentStageG[2 * i], currentStageG[2 * i + 1])]
    IN  stageG[numStages][0]

(***************************************************************************)
(* Package cache: loading a persisted fixture.  A file is what               *)
(* json.Unmarshal makes of it: not JSON at all, or the fields exp, n and the *)
(* list of strings.  A string is a sequence of characters.                   *)
(***************************************************************************)
\* Most entries of a fixture file, and largest size exponent stored in one.
MaxEntries == 2
MaxExp == 1

\* The mutant: a string that is not a number is read as 0.
SetStringLenient(s) == [ok |-> TRUE, val |-> 0]

\* new(big.Int).SetString(s, 16): an optional sign, then one or more
\* hexadecimal digits; val is the number reduced as fr.Element.SetBigInt does.
SetString(s) ==
    LET lower == << "0", "1", "2", "3", "4", "5", "6", "7", "8", "9", "a", "b", "c", "d", "e", "f" >>
        upper == << "0", "1", "2", "3", "4", "5", "6", "7", "8", "9", "A", "B", "C", "D", "E", "F" >>
        digit == [c \in { lower[d] : d \in 1 .. 16 } \cup { upper[d] : d \in 1 .. 16 } |->
                     (CHOOSE d \in 1 .. 16 : lower[d] = c \/ upper[d] = c) - 1]
        neg == s # << >> /\ s[1] = "-"
        body == IF s # << >> /\ s[1] \in {"-", "+"} THEN Tail(s) ELSE s
        num[i \in 0 .. Len(body)] == IF i = 0 THEN 0 ELSE 16 * num[i - 1] + digit[body[i]]
    IN  IF body = << >> \/ \E i \in 1 .. Len(body) : body[i] \notin DOMAIN digit
        THEN [ok |-> FALSE, val |-> 0]
        ELSE [ok |-> TRUE,
              val |-> IF neg THEN (GroupOrder - (num[Len(body)] % GroupOrder)) % GroupOrder
                      ELSE num[Len(body)] % GroupOrder]

\* LoadScalars(path): (out, exp, err).
LoadScalars(fs, path) ==
    IF path \notin DOMAIN fs THEN [out |-> << >>, exp |-> 0, err |-> "read"]
    ELSE LET sf == fs[path]
             bad == { i \in 1 .. Len(sf.entries) : ~SetString(sf.entries[i]).ok }
         IN  IF ~sf.json THEN [out |-> << >>, exp |-> 0, err |-> "json"]
             ELSE IF sf.N # Len(sf.entries) THEN [out |-> << >>, exp |-> sf.Exp, err |-> "malformed"]
             ELSE IF bad # {} THEN [out |-> << >>, exp |-> sf.Exp, err |-> "invalid"]
             ELSE [out |-> [i \in 1 .. sf.N |-> SetString(sf.entries[i]).val],
                   exp |-> sf.Exp, err |-> "nil"]

\* LoadPoints(path): (out, exp, err).  base64 decoding fails on a character
\* outside the alphabet; G1Affine.Unmarshal fails on a wrong length and on a
\* pair that is neither the point at infinity nor on the curve.
LoadPoints(fs, path) ==
    IF path \notin DOMAIN fs THEN [out |-> << >>, exp |-> 0, err |-> "read"]
    ELSE LET pf == fs[path]
             alphabet == << "A", "B", "C", "D", "E", "F", "G" >>
             b64 == [c \in { alphabet[d] : d \in 1 .. FieldP } |->
                        (CHOOSE d \in 1 .. FieldP : alphabet[d] = c) - 1]
             decodes(e) == \A i \in 1 .. Len(e) : e[i] \in DOMAIN b64
             raw(e) == [i \in 1 .. Len(e) |-> b64[e[i]]]
             onCurve(x, y) == FSquare(y) = FAdd(FMul(FSquare(x), x), 3)
             unmarshals(r) == Len(r) = 2 /\ ((r[1] = 0 /\ r[2] = 0) \/ onCurve(r[1], r[2]))
             bad == { i \in 1 .. Len(pf.entries) :
                         ~decodes(pf.entries[i]) \/ ~unmarshals(raw(pf.entries[i])) }
         IN  IF ~pf.json THEN [out |-> << >>, exp |-> 0, err |-> "json"]
             ELSE IF pf.N # Len(pf.entries) THEN [out |-> << >>, exp |-> pf.Exp, err |-> "malformed"]
             ELSE IF bad # {} THEN [out |-> << >>, exp |-> pf.Exp, err |-> "invalid"]
             ELSE [out |-> [i \in 1 .. pf.N |-> Aff(raw(pf.entries[i])[1], raw(pf.entries[i])[2])],
                   exp |-> pf.Exp, err |-> "nil"]

\* ScalarPath(exp), PointPath(exp): ./data/<kind>/exp_<exp>_<kind>.json; the
\* directory is taken to exist or to be creatable.
CachePath(kind, exp) == << "data", kind, exp >>

\* The mutant: the file is left as it was.
SaveScalarsStale(fs, path, exp, scalars) == fs

\* SaveScalars(path, exp, scalars): exp, n = len(scalars) and each scalar as
\* BigInt().Text(16), lower-case hexadecimal without prefix, written over
\* whatever the path held.
SaveScalars(fs, path, exp, scalars) ==
    LET hex == << "0", "1", "2", "3", "4", "5", "6", "7", "8", "9", "a", "b", "c", "d", "e", "f" >>
        text[v \in 0 .. (GroupOrder - 1)] ==
            IF v < 16 THEN << hex[v + 1] >> ELSE Append(text[v \div 16], hex[(v % 16) + 1])
        sf == [json |-> TRUE, Exp |-> exp, N |-> Len(scalars),
               entries |-> [i \in 1 .. Len(scalars) |-> text[scalars[i]]]]
    IN  [p \in DOMAIN fs \cup {path} |-> IF p = path THEN sf ELSE fs[p]]

\* SavePoints(path, exp, points): exp, n = len(points) and each point as
\* base64 of G1Affine.Marshal(), here its two coordinates.
SavePoints(fs, path, exp, points) ==
    LET alphabet == << "A", "B", "C", "D", "E", "F", "G" >>
        pf == [json |-> TRUE, Exp |-> exp, N |-> Len(points),
               entries |-> [i \in 1 .. Len(points) |->
                               << alphabet[points[i].X + 1], alphabet[points[i].Y + 1] >>]]
    IN  [p \in DOMAIN fs \cup {path} |-> IF p = path THEN pf ELSE fs[p]]

\* LoadOrCreateScalars(exp, n, genScalars): (scalars, fromCache, err), with
\* the files before and after the call.  gen is what genScalars(n) returns.
LoadOrCreateScalars(fs, exp, cnt, gen) ==
    LET spath == CachePath("scalars", exp)
        ld == LoadScalars(fs, spath)
    IN  IF spath \in DOMAIN fs /\ ld.err = "nil" /\ Len(ld.out) = cnt /\ ld.exp = exp
        THEN [out |-> ld.out, fromCache |-> TRUE, err |-> "nil", before |-> fs, after |-> fs]
        ELSE IF gen.err # "nil"
        THEN [out |-> << >>, fromCache |-> FALSE, err |-> gen.err, before |-> fs, after |-> fs]
        ELSE [out |-> gen.out, fromCache |-> FALSE, err |-> "nil", before |-> fs,
              after |-> SaveScalars(fs, spath, exp, gen.out)]

\* LoadOrCreatePoints(exp, n, genPoints): likewise.
LoadOrCreatePoints(fs, exp, cnt, gen) ==
    LET ppath == CachePath("points", exp)
        ld == LoadPoints(fs, ppath)
    IN  IF ppath \in DOMAIN fs /\ ld.err = "nil" /\ Len(ld.out) = cnt /\ ld.exp = exp
        THEN [out |-> ld.out, fromCache |-> TRUE, err |-> "nil", before |-> fs, after |-> fs]
        ELSE IF gen.err # "nil"
        THEN [out |-> << >>, fromCache |-> FALSE, err |-> gen.err, before |-> fs, after |-> fs]
        ELSE [out |-> gen.out, fromCache |-> FALSE, err |-> "nil", before |-> fs,
              after |-> SavePoints(fs, ppath, exp, gen.out)]

(***************************************************************************)
(* Package msm.  A result is (out, err) with the number of group operations *)
(* the call has done.                                                       *)
(***************************************************************************)
\* Longest points and scalars arrays of an MSM call.
MsmMaxLen == 2

\* The mutant: the terms are summed first, the lengths compared afterwards.
NaiveMSMLate(points, scalars) ==
    LET m == Min(Len(points), Len(scalars))
        accJ[i \in 0 .. m] ==
            IF i = 0 THEN ZeroJac
            ELSE AddAssign(accJ[i - 1],
                           FromAffine(FromJacobian(ScalarMultiplication(FromAffine(points[i]), scalars[i]))))
    IN  IF Len(points) # Len(scalars)
        THEN [out |-> FromJacobian(accJ[m]), err |-> "ErrLenMismatch", ops |-> m]
        ELSE [out |-> FromJacobian(accJ[m]), err |-> "nil", ops |-> m]

\* NaiveMSM: sum_i scalars[i] * points[i], term by term.
NaiveMSM(points, scalars) ==
    LET accJ[i \in 0 .. Len(points)] ==
            IF i = 0 THEN ZeroJac
            ELSE AddAssign(accJ[i - 1],
                           FromAffine(FromJacobian(ScalarMultiplication(FromAffine(points[i]), scalars[i]))))
    IN  IF Len(points) # Len(scalars) THEN [out |-> Aff(0, 0), err |-> "ErrLenMismatch", ops |-> 0]
        ELSE IF Len(points) = 0 THEN [out |-> Aff(0, 0), err |-> "nil", ops |-> 0]
        ELSE [out |-> FromJacobian(accJ[Len(points)]), err |-> "nil", ops |-> Len(points)]

\* MultiExpMSM: the same sum by G1Jac.MultiExp (library code: the sum is
\* taken here from the last term to the first).
MultiExpMSM(points, scalars) ==
    LET len == Len(points)
        acc[i \in 1 .. (len + 1)] ==
            IF i = len + 1 THEN Jac(1, 1, 0)
            ELSE AddAssign(ScalarMultiplication(FromAffine(points[i]), scalars[i]), acc[i + 1])
    IN  IF Len(points) # Len(scalars) THEN [out |-> Aff(0, 0), err |-> "ErrLenMismatch", ops |-> 0]
        ELSE IF Len(points) = 0 THEN [out |-> Aff(0, 0), err |-> "nil", ops |-> 0]
        ELSE [out |-> FromJacobian(acc[1]), err |-> "nil", ops |-> len]

\* A helper of the packages cache and msm at its entry.
InitLibCall(v, l) ==
    /\ variant = v
    /\ lib = l
    /\ input = << >> /\ orig = << >> /\ in0 = << >>
    /\ wArg = 1 /\ procs = 1 /\ round = 1
    /\ pc = "call"
    /\ n = 0 /\ workers = 0 /\ ci = 0 /\ step = 0
    /\ mt = NoLocals
    /\ buf = << >> /\ workCh = << >> /\ gor = << >> /\ wg = 0
    /\ outAff = NilVec
    /\ err = "nil"
    /\ prof = NoProf
    /\ hist = NoUtilHist

\* Fixture files: absent, not JSON, or with any declared count, exponent and
\* up to MaxEntries strings, well-formed and not.
InitLib ==
    LET scalarStrings == { << >>, << "1" >>, << "c" >>, << "1", "c" >>, << "-", "1" >>,
                           << "g" >>, << "1", "g" >>, << "-" >>, << "c", "-" >> }
        pointStrings == { << >>, << "B", "C" >>, << "A", "A" >>, << "B", "F" >>, << "A", "B" >>,
                          << "B" >>, << "B", "!" >>, << "!", "C" >>, << "B", "C", "A" >> }
        lists(strs) == UNION { [1 .. len -> strs] : len \in 0 .. MaxEntries }
        files(strs) == { [json |-> TRUE, Exp |-> e, N |-> c, entries |-> es] :
                            e \in 0 .. MaxExp, c \in 0 .. (MaxEntries + 1), es \in lists(strs) }
                       \cup { [json |-> FALSE, Exp |-> 0, N |-> 0, entries |-> << >>] }
        disks(strs) == { [p \in {"path"} |-> f] : f \in files(strs) } \cup { << >> }
        arrays(S) == UNION { [1 .. len -> S] : len \in 0 .. MsmMaxLen }
        disksAt(strs, path) == { [p \in {path} |-> f] : f \in files(strs) } \cup { << >> }
        drawn == {0, 5, GroupOrder - 1}
        \* What the generator returns in the first and in the second call: an
        \* error or cnt drawn values, then cnt other values.
        gens(cnt) == { << [out |-> << >>, err |-> "rand"], [out |-> [i \in 1 .. cnt |-> 1], err |-> "nil"] >> }
                   \cup { << [out |-> ks, err |-> "nil"],
                             [out |-> [i \in 1 .. cnt |-> (ks[i] + 1) % GroupOrder], err |-> "nil"] >> :
                           ks \in [1 .. cnt -> drawn] }
        pointsOf(g) == [out |-> [i \in 1 .. Len(g.out) |-> PointOf[g.out[i]]], err |-> g.err]
        \* The private vector G: every short vector over a few points, the
        \* pattern vectors, and vectors of the points (a*i*i + b*i + 1)*G.
        rowVectors(len) == { v \in FullInputs : VLen(v) = len }
                           \cup { PatternVec(len, pat) : pat \in Patterns }
                           \cup { [i \in 0 .. (len - 1) |-> PointOf[(a * i * i + b * i + 1) % GroupOrder]] :
                                    a \in 0 .. MaxScalar, b \in 0 .. MaxScalar }
        \* rand.Int for index i: an error, or a value below the modulus.
        draws(cnt) == { [i \in 0 .. (cnt - 1) |->
                            IF i \in failing THEN [err |-> "rand", val |-> 0]
                            ELSE [err |-> "nil", val |-> (5 * i + GroupOrder - 1) % GroupOrder]] :
                          failing \in SUBSET (0 .. (cnt - 1)) }
        randArgs == UNION { { [n |-> c, workers |-> w, NumCPU |-> cpu, draws |-> d] :
                                w \in -1 .. MaxProcs, cpu \in 1 .. MaxProcs, d \in draws(c) } :
                            c \in -1 .. (MaxEntries + 1) }
        msmArgs == { [points |-> ps, scalars |-> ks] :
                        ps \in arrays({ PointOf[k] : k \in 0 .. MaxScalar }),
                        ks \in arrays(0 .. MaxScalar) }
    IN  \/ \E a \in msmArgs, v \in {"NaiveMSM", "MultiExpMSM"} :
              InitLibCall(v, [fs |-> << >>, args |-> a, ret |-> << >>])
        \/ \E fs \in disks(scalarStrings) :
              InitLibCall("LoadScalars", [fs |-> fs, args |-> [path |-> "path"], ret |-> << >>])
        \/ \E fs \in disks(pointStrings) :
              InitLibCall("LoadPoints", [fs |-> fs, args |-> [path |-> "path"], ret |-> << >>])
        \/ \E nb \in 0 .. NumBits, idx \in 0 .. (Pow2(NumBits) - 1) :
              /\ idx < Pow2(nb)
              /\ \E G \in rowVectors(Pow2(nb)) :
                    InitLibCall("computeFWHTRow",
                                [fs |-> << >>, args |-> [nbDigits |-> nb, g |-> G, index |-> idx],
                                 ret |-> << >>])
        \/ \E a \in randArgs, v \in {"RandomScalarsPar", "RandomPointsG1Par"} :
              /\ a.workers > 0 => a.NumCPU = 1
              /\ InitLibCall(v, [fs |-> << >>, args |-> a,
                                 ret |-> [sent |-> << >>, taken |-> << >>, errs |-> << >>, writes |-> << >>]])
        \/ \E e \in 0 .. MaxExp, c \in 0 .. MaxEntries :
              \/ \E fs \in disksAt({ << "1" >>, << "1", "c" >>, << "g" >> }, CachePath("scalars", e)),
                       g \in gens(c) :
                    InitLibCall("LoadOrCreateScalars",
                                [fs |-> fs, args |-> [exp |-> e, n |-> c, gen |-> g], ret |-> << >>])
              \/ \E fs \in disksAt({ << "B", "C" >>, << "A", "A" >>, << "B", "B" >> }, CachePath("points", e)),
                       g \in gens(c) :
                    InitLibCall("LoadOrCreatePoints",
                                [fs |-> fs,
                                 args |-> [exp |-> e, n |-> c, gen |-> << pointsOf(g[1]), pointsOf(g[2]) >>],
                                 ret |-> << >>])

LoadScalarsCall ==
    /\ pc = "call"
    /\ variant = "LoadScalars"
    /\ lib' = [lib EXCEPT !.ret = LoadScalars(lib.fs, lib.args.path)]
    /\ pc' = "done"
    /\ UNCHANGED << prof, variant, orig, in0, input, wArg, procs, round, n, workers, ci, step,
                    mt, buf, workCh, gor, wg, outAff, err, hist >>

LoadPointsCall ==
    /\ pc = "call"
    /\ variant = "LoadPoints"
    /\ lib' = [lib EXCEPT !.ret = LoadPoints(lib.fs, lib.args.path)]
    /\ pc' = "done"
    /\ UNCHANGED << prof, variant, orig, in0, input, wArg, procs, round, n, workers, ci, step,
                    mt, buf, workCh, gor, wg, outAff, err, hist >>

\* LoadOrCreateScalars or LoadOrCreatePoints is called, and called once more
\* with the same (exp, n) as soon as it has returned.
LoadOrCreateCall ==
    /\ variant \in {"LoadOrCreateScalars", "LoadOrCreatePoints"}
    /\ pc = "call" \/ (pc = "done" /\ round = 1)
    /\ LET a == lib.args
           gen == a.gen[Len(lib.ret) + 1]
           res == IF variant = "LoadOrCreateScalars"
                  THEN LoadOrCreateScalars(lib.fs, a.exp, a.n, gen)
                  ELSE LoadOrCreatePoints(lib.fs, a.exp, a.n, gen)
       IN  lib' = [lib EXCEPT !.fs = res.after, !.ret = Append(@, res)]
    /\ pc' = "done"
    /\ round' = (IF pc = "done" THEN round + 1 ELSE round)
    /\ UNCHANGED << prof, variant, orig, in0, input, wArg, procs, n, workers, ci, step,
                    mt, buf, workCh, gor, wg, outAff, err, hist >>

NaiveMSMCall ==
    /\ pc = "call"
    /\ variant = "NaiveMSM"
    /\ lib' = [lib EXCEPT !.ret = NaiveMSM(lib.args.points, lib.args.scalars)]
    /\ pc' = "done"
    /\ UNCHANGED << prof, variant, orig, in0, input, wArg, procs, round, n, workers, ci, step,
                    mt, buf, workCh, gor, wg, outAff, err, hist >>

MultiExpMSMCall ==
    /\ pc = "call"
    /\ variant = "MultiExpMSM"
    /\ lib' = [lib EXCEPT !.ret = MultiExpMSM(lib.args.points, lib.args.scalars)]
    /\ pc' = "done"
    /\ UNCHANGED << prof, variant, orig, in0, input, wArg, procs, round, n, workers, ci, step,
                    mt, buf, workCh, gor, wg, outAff, err, hist >>

(***************************************************************************)
(* Package randutil.  lib.ret keeps what has happened: the indices sent on *)
(* the jobs channel, who received which, whose draw failed, who wrote      *)
(* which slot.                                                              *)
(***************************************************************************)
\* The entry of RandomScalarsPar / RandomPointsG1Par: the empty vector for
\* n <= 0; otherwise out and the jobs channel are made and the workers
\* started, each blocked on the empty channel.
RandCall ==
    /\ pc = "call"
    /\ variant \in {"RandomScalarsPar", "RandomPointsG1Par"}
    /\ IF lib.args.n <= 0
       THEN /\ pc' = "done"
            /\ UNCHANGED << workers, outAff, gor, wg >>
       ELSE LET w == IF lib.args.workers <= 0 THEN lib.args.NumCPU ELSE lib.args.workers
            IN  /\ workers' = w
                /\ outAff' = [i \in 0 .. (lib.args.n - 1) |->
                                 IF variant = "RandomScalarsPar" THEN 0 ELSE AffZero]
                /\ gor' = [g \in 1 .. w |-> [st |-> "idle", i |-> 0]]
                /\ wg' = w
                /\ pc' = "enqueue"
    /\ ci' = 0
    /\ UNCHANGED << prof, lib, variant, orig, in0, input, wArg, procs, round, n, step,
                    mt, buf, workCh, err, hist >>

\* for i := 0; i < n; i++ { jobs <- i }; close(jobs).  The send blocks while
\* the channel holds workers*2 indices.
RandEnqueue ==
    /\ pc = "enqueue"
    /\ IF ci < lib.args.n
       THEN /\ Len(workCh) < workers * 2
            /\ workCh' = Append(workCh, ci)
            /\ lib' = [lib EXCEPT !.ret.sent = Append(@, ci)]
            /\ ci' = ci + 1
            /\ pc' = pc
       ELSE /\ pc' = "randWait"
            /\ UNCHANGED << workCh, lib, ci >>
    /\ UNCHANGED << prof, variant, orig, in0, input, wArg, procs, round, n, workers, step,
                    mt, buf, gor, wg, outAff, err, hist >>

\* The mutant: a failed draw overwrites firstErr whether or not one is recorded.
ErrOnceAlways(firstErr, e) == e

\* errOnce.Do(func() { firstErr = err }): only the first call assigns.
ErrOnce(firstErr, e) == IF firstErr = "nil" THEN e ELSE firstErr

\* One step of a worker: for i := range jobs receives an index; rand.Int
\* fails, and errOnce records the error if none is recorded, or succeeds, and
\* out[i] is written; when the channel is closed and empty the worker
\* returns (defer wg.Done()).  An error is kept with the index it came from.
RandWorker(g) ==
    /\ variant \in {"RandomScalarsPar", "RandomPointsG1Par"}
    /\ \/ /\ gor[g].st = "idle"
          /\ workCh # << >>
          /\ gor' = [gor EXCEPT ![g] = [st |-> "drawn", i |-> Head(workCh)]]
          /\ workCh' = Tail(workCh)
          /\ lib' = [lib EXCEPT !.ret.taken = Append(@, [g |-> g, i |-> Head(workCh)])]
          /\ UNCHANGED << wg, outAff, err >>
       \/ /\ gor[g].st = "drawn"
          /\ lib.args.draws[gor[g].i].err # "nil"
          /\ err' = ErrOnce(err, << lib.args.draws[gor[g].i].err, gor[g].i >>)
          /\ lib' = [lib EXCEPT !.ret.errs = Append(@, gor[g].i)]
          /\ gor' = [gor EXCEPT ![g] = [@ EXCEPT !.st = "idle"]]
          /\ UNCHANGED << wg, outAff, workCh >>
       \/ /\ gor[g].st = "drawn"
          /\ lib.args.draws[gor[g].i].err = "nil"
          /\ outAff' = [outAff EXCEPT ![gor[g].i] =
                           IF variant = "RandomScalarsPar" THEN lib.args.draws[gor[g].i].val
                           ELSE FromJacobian(ScalarMultiplication(FromAffine(GenAff),
                                                                  lib.args.draws[gor[g].i].val))]
          /\ lib' = [lib EXCEPT !.ret.writes = Append(@, [g |-> g, i |-> gor[g].i])]
          /\ gor' = [gor EXCEPT ![g] = [@ EXCEPT !.st = "idle"]]
          /\ UNCHANGED << wg, err, workCh >>
       \/ /\ gor[g].st = "idle"
          /\ workCh = << >>
          /\ pc = "randWait"
          /\ gor' = [gor EXCEPT ![g] = [@ EXCEPT !.st = "exit"]]
          /\ wg' = wg - 1
          /\ UNCHANGED << lib, outAff, err, workCh >>
    /\ UNCHANGED << prof, variant, orig, in0, input, wArg, procs, round, pc, n, workers, ci,
                    step, mt, buf, hist >>

\* wg.Wait(); if firstErr != nil { return nil, firstErr }; return out, nil
RandReturn ==
    /\ pc = "randWait"
    /\ wg = 0
    /\ outAff' = (IF err # "nil" THEN NilVec ELSE outAff)
    /\ pc' = "done"
    /\ UNCHANGED << prof, lib, variant, orig, in0, input, wArg, procs, round, n, workers, ci,
                    step, mt, buf, workCh, gor, wg, err, hist >>

\* Define's use of the gadget for one index, and main's reference value for
\* it: ToBinary(index, NumBits) gives the bits, least significant first.
FwhtRowCall ==
    /\ pc = "call"
    /\ variant = "computeFWHTRow"
    /\ LET G == lib.args.g
           idxBits == [s \in 1 .. lib.args.nbDigits |-> (lib.args.index \div Pow2(s - 1)) % 2]
       IN  lib' = [lib EXCEPT !.ret = [circuit |-> computeFWHTRow(G, idxBits),
                                       idxBits |-> idxBits,
                                       reference |-> hadamardTransformRow(G, lib.args.index)]]
    /\ pc' = "done"
    /\ UNCHANGED << prof, variant, orig, in0, input, wArg, procs, round, n, workers, ci, step,
                    mt, buf, workCh, gor, wg, outAff, err, hist >>

NextLib ==
    \/ LoadScalarsCall
    \/ LoadPointsCall
    \/ LoadOrCreateCall
    \/ RandCall
    \/ RandEnqueue
    \/ \E g \in 1 .. Len(gor) : RandWorker(g)
    \/ RandReturn
    \/ FwhtRowCall
    \/ NaiveMSMCall
    \/ MultiExpMSMCall

SpecLib == InitLib /\ [][NextLib]_vars

(***************************************************************************)
(* Properties.                                                             *)
(***************************************************************************)
PerPointVariants == { v \in Variants : Conv(v) = "point" }

IsPow2Len(len) == \E e \in 0 .. MaxLen : len = Pow2(e)

\* C1. Involution with scale: after the transform has been applied twice by
\* MatVecHadamardPar (either scheduler, any worker count) or by the serial
\* in-place variant, element i is N times the original element i, compared
\* as verifyDoubleFWHT does (Jacobian Equal) and as the serial driver does
\* (affine Equal with the converted N*x).
C1_Involution ==
    (pc = "done" /\ round = 2 /\ err = "nil" /\ variant \in PerPointVariants) =>
        \A i \in 0 .. (n - 1) :
            LET nx == ScalarMultiplication(FromAffine(orig[i]), n)
            IN  /\ JacEqual(FromAffine(Result[i]), nx)
                /\ AffEqual(Result[i], FromJacobian(nx))

C1_Witness ==
    /\ pc = "done" /\ round = 2 /\ err = "nil" /\ variant = "Par2D"
    /\ n = 4 /\ wArg = 2
    /\ orig[0] # AffZero /\ orig[1] # orig[0] /\ orig[1] # AffZero

\* C2. Serial/parallel equivalence: MatVecHadamardPar (2D-tiled or block-only),
\* for any worker count, returns the error and the vector that
\* MatVecHadamardSerialInPlace produces from the same input.
C2_SerialParallelEquiv ==
    (pc = "done" /\ round = 1 /\ variant \in {"Par2D", "ParBlock"}) =>
        LET ser == CallResult("Serial", in0, 1, 1)
        IN  /\ err = ser.err
            /\ (err = "nil" /\ n > 0) => outAff = ser.input

C2_Witness ==
    /\ pc = "done" /\ round = 1 /\ variant = "Par2D" /\ err = "nil"
    /\ n = 16 /\ wArg = 2
    /\ \E i \in 0 .. (n - 1) : outAff[i] # AffZero

\* C3. Tiling invariance: whatever the worker count and whatever the
\* interleaving of the goroutines, a parallel variant returns the vector that
\* the same variant returns with any other worker count (its tasks run one
\* after another).
C3_TilingInvariance ==
    (pc = "done" /\ err = "nil" /\ n > 0 /\ Sched(variant) # "serial") =>
        \A w \in 1 .. MaxWorkers : outAff = ParResult(variant, in0, w)

\* A finished 16-element run with two workers whose stages took the many-blocks
\* branch, the few-blocks branch with several tasks, and the inline path.
C3_Witness ==
    /\ pc = "done" /\ err = "nil" /\ variant = "Par2D" /\ n = 16 /\ workers = 2
    /\ hist.spawned > 0
    /\ \E s \in {1, 2, 4, 8} : n \div (2 * s) >= TargetTasks(workers) /\ ~PlanTiled(n, s, workers).inline
    /\ \E s \in {1, 2, 4, 8} : n \div (2 * s) < TargetTasks(workers) /\ ~PlanTiled(n, s, workers).inline
    /\ \E s \in {1, 2, 4, 8} : PlanTiled(n, s, workers).inline
    /\ \E i \in 0 .. (n - 1) : outAff[i] # AffZero

\* A stage has run to its end and the next has not cleared its record.
StageComplete ==
    \/ pc \in {"toAff", "done"} /\ err = "nil" /\ n > 1
    \/ pc = "stage" /\ Sched(variant) # "serial" /\ step > 1
    \/ pc = "stage" /\ Sched(variant) = "serial" /\ n > 1
          /\ (mt.k >= n \div 2 \/ (mt.k = 0 /\ mt.r > 0))

\* C4. Per-stage write disjointness: within a stage no index is accessed by
\* more than one task or as part of more than one pair, every pair has
\* a < c, at the end of the stage every index has been accessed exactly once,
\* and no two goroutines hold a common cell between their read and write.
C4_WriteDisjoint ==
    /\ \A i \in DOMAIN hist.touch :
          /\ Cardinality(hist.touch[i]) <= 1
          /\ \A x \in hist.touch[i] : x.a < x.c /\ i \in {x.a, x.c}
    /\ StageComplete => \A i \in DOMAIN hist.touch : Cardinality(hist.touch[i]) = 1
    /\ \A g1, g2 \in 1 .. Len(gor) :
          (g1 # g2 /\ gor[g1].st = "loaded" /\ gor[g2].st = "loaded") =>
              {AIndex(gor[g1].step, gor[g1].b, gor[g1].j), CIndex(gor[g1].step, gor[g1].b, gor[g1].j)}
                  \cap {AIndex(gor[g2].step, gor[g2].b, gor[g2].j), CIndex(gor[g2].step, gor[g2].b, gor[g2].j)}
                  = {}

C4_Witness ==
    /\ \E g1, g2 \in 1 .. Len(gor) :
          g1 # g2 /\ gor[g1].st = "loaded" /\ gor[g2].st = "loaded" /\ gor[g1].task # gor[g2].task
    /\ \E i \in DOMAIN hist.touch : hist.touch[i] = {}

C6_BatchEqualsPerPoint ==
    (pc = "done" /\ err = "nil" /\ Conv(variant) = "batch") =>
        \A i \in 0 .. (n - 1) : AffEqual(outAff[i], FromJacobian(buf[i]))

\* C7. Size precondition: for a length that is neither zero nor a power of
\* two, every variant converts nothing, runs no butterfly, starts no
\* goroutine, leaves the caller's vector as it was, and ends with the size
\* error and no result vector.
C7_SizeError ==
    (n # 0 /\ ~IsPow2Len(n)) =>
        /\ pc \in {"start", "done"}
        /\ hist.convIn = 0 /\ hist.convOut = 0 /\ hist.spawned = 0
        /\ \A r \in DOMAIN hist.started : hist.started[r] = 0
        /\ buf = << >> /\ gor = << >>
        /\ input = in0
        /\ pc = "done" => (err = "size" /\ outAff = NilVec)

C7_Witness == pc = "done" /\ n = 6 /\ err = "size" /\ variant = "ParBlock"

\* C8. Length 0: every variant ends with no error and an empty result, and
\* starts no goroutine.
C8_EmptyInput ==
    n = 0 =>
        /\ pc \in {"start", "done"}
        /\ hist.spawned = 0 /\ gor = << >> /\ wg = 0
        /\ pc = "done" => (err = "nil" /\ VLen(Result) = 0)

C8_Witness == pc = "done" /\ n = 0 /\ err = "nil" /\ variant = "ParBatchProfile"

\* C9. All-identity input: for a power-of-two length, an input whose every
\* element is the identity sentinel (the zero-value pair PadPointsToPow2
\* appends) yields an output whose every element is that sentinel, under the
\* per-element and the batched output conversion.
C9_AllIdentity ==
    (pc = "done" /\ err = "nil" /\ n > 0 /\ \A i \in 0 .. (n - 1) : in0[i] = AffZero) =>
        \A i \in 0 .. (n - 1) : Result[i] = AffZero

C11_NoZeroInversion ==
    variant = "BatchJacToAffG1Par" =>
        /\ \A e \in 1 .. Len(mt.nonZero) :
              mt.nonZero[e].z # 0 /\ buf[mt.nonZero[e].idx].Z = mt.nonZero[e].z
        /\ \A i \in DOMAIN mt.posOf :
              (buf[i].Z = 0 /\ (pc # "bCollect" \/ i < ci)) =>
                  (mt.posOf[i] = 0 /\ \A e \in 1 .. Len(mt.nonZero) : mt.nonZero[e].idx # i)
        /\ \A j \in 1 .. Len(mt.acc) : mt.acc[j] # 0
        /\ \A x \in 1 .. Len(hist.inv) : hist.inv[x].arg # 0
        /\ (\A i \in 0 .. (n - 1) : buf[i].Z = 0) => hist.inv = << >>

\* A finished call on identities interspersed among other elements.
C11_Witness ==
    /\ variant = "BatchJacToAffG1Par" /\ pc = "done" /\ n = 3
    /\ buf[0].Z = 0 /\ buf[1].Z # 0 /\ buf[2].Z = 0
    /\ Len(hist.inv) = 1

\* C12. Batch inversion correctness: for every element with Z # 0 at index i,
\* the backward pass leaves invZ * Z_i = 1 and out[i] = (X_i/Z_i^2, Y_i/Z_i^3),
\* which is what FromJacobian yields; nonZero lists exactly the indices with
\* Z # 0 in increasing order, and out has an entry for every index of in.
C12_BatchInversion ==
    (variant = "BatchJacToAffG1Par" /\ pc = "done" /\ n > 0) =>
        /\ DOMAIN outAff = 0 .. (n - 1)
        /\ Len(mt.nonZero) = Cardinality({i \in 0 .. (n - 1) : buf[i].Z # 0})
        /\ \A e \in 1 .. (Len(mt.nonZero) - 1) : mt.nonZero[e].idx < mt.nonZero[e + 1].idx
        /\ \A i \in 0 .. (n - 1) :
              buf[i].Z # 0 =>
                  LET j == mt.posOf[i]
                      zi == FInverse(buf[i].Z)
                  IN  /\ j \in 1 .. Len(mt.nonZero)
                      /\ mt.nonZero[j].idx = i
                      /\ FMul(mt.invZ[j], buf[i].Z) = 1
                      /\ outAff[i] = Aff(FMul(buf[i].X, FSquare(zi)),
                                         FMul(buf[i].Y, FMul(FSquare(zi), zi)))
                      /\ outAff[i] = FromJacobian(buf[i])
        /\ n <= BatchMaxLen + 1 => outAff = BatchJacToAffG1Par(buf, workers)

\* A finished call whose finishing step ran in goroutines, with identities
\* among the elements.
C12_Witness ==
    /\ variant = "BatchJacToAffG1Par" /\ pc = "done" /\ Len(gor) >= 2
    /\ buf[5].Z = 0 /\ buf[6].Z # 0 /\ mt.posOf[6] = 6

\* C13. One sequential inversion per call: at most one Inverse per call,
\* exactly one once a call with a non-identity element is past it, performed
\* while no goroutine of the call is alive, and no call of the finishing fn
\* (inline or in a goroutine) starts before it and the whole backward pass
\* are done.
C13_SingleInversion ==
    variant = "BatchJacToAffG1Par" =>
        /\ Len(hist.inv) <= 1
        /\ \A x \in 1 .. Len(hist.inv) : hist.inv[x].live = 0
        /\ (hist.calls # << >> \/ gor # << >>) =>
              /\ Len(hist.inv) = 1
              /\ hist.swept = Len(mt.nonZero)
              /\ \A j \in 1 .. Len(mt.nonZero) : mt.invZ[j] # 0
        /\ (pc = "done" /\ Len(mt.nonZero) > 0) => Len(hist.inv) = 1
        /\ pc \in {"bCollect", "bPrefix", "bInvert", "bSweep"} => (gor = << >> /\ hist.calls = << >>)

\* A goroutine of the finishing step inside fn while another has not started.
C13_Witness ==
    /\ variant = "BatchJacToAffG1Par"
    /\ \E g1, g2 \in 1 .. Len(gor) : gor[g1].st = "running" /\ gor[g2].st = "ready"
    /\ Len(hist.inv) = 1

\* C14. Padding helper: for a length L that is neither 0 nor a power of two
\* the result has the smallest power-of-two length >= L, the input as its
\* first L elements and the identity sentinel after them; for L = 0 or a
\* power of two the result is the input; the transform's size check accepts
\* the result.
C14_PadPointsToPow2 ==
    (variant = "PadPointsToPow2" /\ pc = "done") =>
        LET L == VLen(input)
            R == VLen(outAff)
        IN  /\ (L = 0 \/ IsPow2Len(L)) => outAff = input
            /\ (L # 0 /\ ~IsPow2Len(L)) =>
                  /\ IsPow2Len(R) /\ R >= L /\ R \div 2 < L
                  /\ DOMAIN outAff = 0 .. (R - 1)
                  /\ \A i \in 0 .. (L - 1) : outAff[i] = input[i]
                  /\ \A i \in L .. (R - 1) : outAff[i] = AffZero
            /\ ValidateLen(R) # "size"

C14_Witness ==
    /\ variant = "PadPointsToPow2" /\ pc = "done"
    /\ VLen(input) = 5 /\ VLen(outAff) = 8 /\ input[4] # AffZero /\ outAff[5] = AffZero

\* C15. Worker-count coercion: once a transform variant or the batched
\* converter is past its entry on a non-empty valid argument, its worker
\* count is GOMAXPROCS(0) for an argument <= 0, the argument otherwise, and
\* at least 1 (the serial variant takes no argument and runs as one worker).
C15_WorkerCoercion ==
    ((variant \in Variants /\ pc # "start" /\ ValidateLen(n) = "ok")
        \/ (variant = "BatchJacToAffG1Par" /\ pc # "call" /\ n > 0)) =>
        /\ workers >= 1
        /\ wArg <= 0 => workers = procs
        /\ wArg > 0 => workers = wArg

C15_Witness ==
    /\ variant = "BatchJacToAffG1Par" /\ pc = "done" /\ n = 3
    /\ wArg = -1 /\ procs = 2 /\ workers = 2

\* C17. parallelRange: with workers <= 1 or n < 1024 fn(0, n) is called once,
\* by the calling thread; otherwise fn is called in at most `workers`
\* goroutines on non-empty contiguous chunks that follow one another from 0
\* to n, every index is visited exactly once, and parallelRange returns only
\* when every call has returned.  The chunk bounds are also checked for every
\* worker count up to MaxChunkWorkers.
C17_ParallelRange ==
    variant = "parallelRange" =>
        /\ \A g \in 1 .. Len(gor) :
              /\ gor[g].a < gor[g].b
              /\ gor[g].a = (IF g = 1 THEN 0 ELSE gor[g - 1].b)
              /\ gor[g].b <= n
        /\ Len(gor) <= Max(workers, 0)
        /\ gor # << >> => ~(workers <= 1 \/ n < 1024)
        /\ \A x \in 1 .. Len(hist.calls) :
              \A y \in 1 .. Len(hist.calls) : x # y => hist.calls[x] # hist.calls[y]
        /\ pc = "done" =>
              /\ \A i \in 0 .. (n - 1) : outAff[i] = 1
              /\ hist.returned = Len(hist.calls)
              /\ \A g \in 1 .. Len(gor) : gor[g].st = "exit"
              /\ IF workers <= 1 \/ n < 1024
                 THEN hist.calls = << [a |-> 0, b |-> n, by |-> 0] >> /\ gor = << >>
                 ELSE /\ Len(hist.calls) = Len(gor)
                      /\ gor # << >> /\ gor[Len(gor)].b = n
                      /\ \A x \in 1 .. Len(hist.calls) :
                            LET c == hist.calls[x]
                            IN  c.by \in 1 .. Len(gor) /\ c.a = gor[c.by].a /\ c.b = gor[c.by].b
        /\ n >= 1024 =>
              \A w \in 2 .. MaxChunkWorkers :
                  LET cs == PRChunks(n, w)
                  IN  /\ Len(cs) \in 1 .. w
                      /\ cs[1].a = 0 /\ cs[Len(cs)].b = n
                      /\ \A x \in 1 .. Len(cs) :
                            cs[x].a < cs[x].b /\ (x > 1 => cs[x].a = cs[x - 1].b)

C17_Witness ==
    /\ variant = "parallelRange" /\ pc = "done" /\ n = ParThreshold + 1
    /\ Len(gor) = 3 /\ hist.calls[1].by = 3

\* C18. Task pool: a dispatched stage of the 2D-tiled scheduler has more than
\* one task and exactly min(workers, taskCount) consumers; the tasks leave the
\* queue in order, each once; no two consumers hold the same task; a consumer
\* that has finished its task has accessed every cell of the task's
\* rectangle, and no other task has; and the calling thread is past the stage
\* only with the queue empty, every task taken, every cell accessed once, by
\* the task whose rectangle holds it, and every consumer gone.
C18_TaskPool ==
    Sched(variant) = "tiled" =>
        /\ pc = "wait" =>
              LET tasks == TasksTiled(n, step, workers)
                  tk == hist.taken
              IN  /\ Len(tasks) > 1
                  /\ Len(gor) = Min(workers, Len(tasks))
                  /\ \A x, y \in 1 .. Len(tasks) : x # y => tasks[x] # tasks[y]
                  /\ Len(tk) <= Len(tasks)
                  /\ \A x \in 1 .. Len(tk) : tk[x] = tasks[x]
                  /\ workCh = SubSeq(tasks, Len(tk) + 1, Len(tasks))
                  /\ \A g \in 1 .. Len(gor) :
                        gor[g].st \in {"run", "loaded"} =>
                            /\ \E x \in 1 .. Len(tk) : tk[x] = gor[g].task
                            /\ \A g2 \in 1 .. Len(gor) :
                                  (g2 # g /\ gor[g2].task # NoTask) => gor[g2].task # gor[g].task
                  /\ \A g \in 1 .. Len(gor) :
                        (gor[g].st \in {"idle", "exit"} /\ gor[g].task # NoTask) =>
                            LET t == gor[g].task
                            IN  \A b \in t.b0 .. (t.b1 - 1) : \A j \in t.j0 .. (t.j1 - 1) :
                                    LET a == AIndex(step, b, j)
                                        c == CIndex(step, b, j)
                                    IN  hist.touch[a] = {Access(t, a, c)} /\ hist.touch[c] = {Access(t, a, c)}
                  /\ wg = Cardinality({g \in 1 .. Len(gor) : gor[g].st # "exit"})
                  /\ wg = 0 =>
                        /\ workCh = << >> /\ Len(tk) = Len(tasks)
                        /\ hist.finished[StageOf(step)] = n \div 2
        /\ pc # "wait" =>
              /\ workCh = << >> /\ wg = 0
              /\ \A g \in 1 .. Len(gor) : gor[g].st = "exit"
        /\ (pc = "stage" /\ hist.taken # << >>) =>
              LET s == step \div 2
                  tasks == TasksTiled(n, s, workers)
              IN  /\ hist.taken = tasks
                  /\ hist.finished[StageOf(s)] = n \div 2
                  /\ \A i \in 0 .. (n - 1) :
                        \E t \in {tasks[x] : x \in 1 .. Len(tasks)} :
                            \E b \in t.b0 .. (t.b1 - 1) : \E j \in t.j0 .. (t.j1 - 1) :
                                /\ i \in {AIndex(s, b, j), CIndex(s, b, j)}
                                /\ hist.touch[i] = {Access(t, AIndex(s, b, j), CIndex(s, b, j))}

\* A consumer on its second task while another is still inside its first.
C18_Witness ==
    /\ Sched(variant) = "tiled" /\ pc = "wait" /\ Len(gor) = 2
    /\ Len(hist.taken) >= 3
    /\ gor[1].task = hist.taken[1] /\ gor[1].st = "loaded"
    /\ gor[2].task = hist.taken[3] /\ gor[2].st = "run"

\* C16. Profiling does not alter results: MatVecHadamardParBatchProfile ends
\* with the error and the vector of MatVecHadamardParBatch, and
\* MatVecHadamardParProfile with those of MatVecHadamardPar (block-only and
\* 2D-tiled), for every input, worker count and interleaving.
C16_ProfileSameResult ==
    (pc = "done" /\ variant \in {"ParBatchProfile", "ParProfile"}) =>
        LET refs == IF variant = "ParBatchProfile" THEN {"ParBatch"} ELSE {"ParBlock", "Par2D"}
        IN  \A v \in refs :
                LET ref == CallResult(v, in0, wArg, procs)
                IN  err = ref.err /\ outAff = ref.out /\ input = ref.input

C16_Witness ==
    /\ pc = "done" /\ variant = "ParBatchProfile" /\ n = 16 /\ workers = 2
    /\ hist.spawned > 0
    /\ \E i \in 0 .. (n - 1) : outAff[i] = AffSetInfinity
    /\ \E i \in 0 .. (n - 1) : outAff[i] \notin {AffSetInfinity, AffZero}

\* The tasks the stage at distance s is given, with nb and target.
PlanNb == n \div (2 * mt.planStep)

PlanTarget == 3 * workers

\* C19. Block-axis tiling: in a stage with nb >= target the tasks are at least
\* one and at most target block ranges [b0, b1), non-empty, following one
\* another from 0 to nb, each over the whole intra-block range [0, step).
C19_BlockAxisTiling ==
    (variant = "stageTasks" /\ mt.planStep > 0 /\ PlanNb >= PlanTarget) =>
        /\ Len(workCh) \in 1 .. PlanTarget
        /\ workCh[1].b0 = 0 /\ workCh[Len(workCh)].b1 = PlanNb
        /\ \A x \in 1 .. Len(workCh) :
              /\ workCh[x].b0 < workCh[x].b1
              /\ x > 1 => workCh[x].b0 = workCh[x - 1].b1
              /\ workCh[x].j0 = 0 /\ workCh[x].j1 = mt.planStep

C19_Witness ==
    /\ variant = "stageTasks" /\ n = 1024 /\ workers = 7 /\ mt.planStep = 2
    /\ Len(workCh) = 20 /\ workCh[20].b1 - workCh[20].b0 = 9

\* C20. Intra-block tiling: in a stage with nb < target the tasks are
\* min(ceil(target/nb), step) column tiles [j0, j1), non-empty, following one
\* another from 0 to step, each over all blocks [0, nb).
C20_ColumnTiling ==
    (variant = "stageTasks" /\ mt.planStep > 0 /\ PlanNb < PlanTarget) =>
        /\ Len(workCh) = Min((PlanTarget + PlanNb - 1) \div PlanNb, mt.planStep)
        /\ workCh[1].j0 = 0 /\ workCh[Len(workCh)].j1 = mt.planStep
        /\ \A x \in 1 .. Len(workCh) :
              /\ workCh[x].j0 < workCh[x].j1
              /\ x > 1 => workCh[x].j0 = workCh[x - 1].j1
              /\ workCh[x].b0 = 0 /\ workCh[x].b1 = PlanNb

\* C21. Inline single task: a stage whose tiling yields one task runs on the
\* calling thread, with no goroutine of the stage, no queue and a zero
\* WaitGroup; a stage of the 2D-tiled scheduler is dispatched only with more
\* than one task; the buffer a stage leaves, inline or dispatched, is the one
\* its tasks leave when run one after another on the buffer the stage began
\* with; and a call with N <= 2 starts no goroutine at all.
C21_InlineSingleTask ==
    (variant \in Variants /\ Sched(variant) # "serial") =>
        /\ pc = "inline" =>
              LET tasks == Plan(variant, n, step, workers).tasks
              IN  /\ Len(tasks) = 1 /\ mt.task = tasks[1]
                  /\ gor = << >> /\ workCh = << >> /\ wg = 0
        /\ (pc = "wait" /\ Sched(variant) = "tiled") => Len(TasksTiled(n, step, workers)) > 1
        /\ (pc = "stage" /\ step > 1) =>
              buf = RunTasks(hist.stage0, Plan(variant, n, step \div 2, workers).tasks, step \div 2)
        /\ n <= 2 => (hist.spawned = 0 /\ gor = << >>)

\* A 16-element run with two workers past its second stage, which ran inline
\* after a dispatched first stage.
C21_Witness ==
    /\ variant = "Par2D" /\ pc = "stage" /\ n = 16 /\ workers = 2 /\ step = 4
    /\ hist.spawned > 0 /\ PlanTiled(n, 2, workers).inline
    /\ buf # hist.stage0

\* C22. Loading a fixture: LoadScalars and LoadPoints end with an error and
\* no elements when the file cannot be read or parsed, when its declared
\* count differs from the number of its entries, or when an entry does not
\* decode (a scalar: optional sign and hexadecimal digits; a point: base64 of
\* a coordinate pair that is a group element); otherwise they end without
\* error, with as many elements as declared, the decoded ones, and in every
\* case past parsing with the stored exponent.
C22_FixtureLoad ==
    (variant \in {"LoadScalars", "LoadPoints"} /\ pc = "done") =>
        LET r == lib.ret
            present == "path" \in DOMAIN lib.fs /\ lib.fs["path"].json
            f == lib.fs["path"]
            hex(s) == LET body == IF s # << >> /\ s[1] \in {"-", "+"} THEN Tail(s) ELSE s
                      IN  body # << >> /\ \A i \in 1 .. Len(body) : body[i] \in {"0", "1", "c"}
            pt(s) == /\ Len(s) = 2
                     /\ \A i \in 1 .. 2 : s[i] \in {"A", "B", "C", "F"}
                     /\ \E k \in 0 .. (GroupOrder - 1) :
                           << PointOf[k].X, PointOf[k].Y >>
                               = [i \in 1 .. 2 |-> CASE s[i] = "A" -> 0 [] s[i] = "B" -> 1
                                                     [] s[i] = "C" -> 2 [] OTHER -> 5]
            good(s) == IF variant = "LoadScalars" THEN hex(s) ELSE pt(s)
            ok == present /\ f.N = Len(f.entries) /\ \A i \in 1 .. Len(f.entries) : good(f.entries[i])
        IN  /\ r.err = "nil" <=> ok
            /\ ~ok => r.out = << >>
            /\ ok => (Len(r.out) = f.N /\ Len(r.out) = Len(f.entries))
            /\ present => r.exp = f.Exp
            /\ (ok /\ variant = "LoadPoints") =>
                  \A i \in 1 .. f.N : \E k \in 0 .. (GroupOrder - 1) : r.out[i] = PointOf[k]
            /\ (ok /\ variant = "LoadScalars") =>
                  \A i \in 1 .. f.N : r.out[i] \in 0 .. (GroupOrder - 1)

\* A load that succeeds with two entries, one of them negative.
C22_Witness ==
    /\ variant = "LoadScalars" /\ pc = "done"
    /\ "path" \in DOMAIN lib.fs
    /\ lib.fs["path"].json /\ lib.fs["path"].N = 2 /\ lib.fs["path"].Exp = 1
    /\ lib.fs["path"].entries = << << "1", "c" >>, << "-", "1" >> >>
    /\ lib.ret.err = "nil" /\ lib.ret.out = << 2, 12 >> /\ lib.ret.exp = 1

\* C23. MSM helpers: NaiveMSM and MultiExpMSM end with ErrLenMismatch and the
\* zero point, having done no group operation, whenever points and scalars
\* differ in length; with the identity and no error for two empty arrays; and
\* without error for arrays of equal length, both with the same point.
C23_MsmLengthCheck ==
    (variant \in {"NaiveMSM", "MultiExpMSM"} /\ pc = "done") =>
        LET ps == lib.args.points
            ks == lib.args.scalars
            r == lib.ret
        IN  /\ Len(ps) # Len(ks) => (r.err = "ErrLenMismatch" /\ r.out = AffZero /\ r.ops = 0)
            /\ (Len(ps) = 0 /\ Len(ks) = 0) => (r.err = "nil" /\ AffIsInfinity(r.out))
            /\ Len(ps) = Len(ks) =>
                  /\ r.err = "nil"
                  /\ r.out = NaiveMSM(ps, ks).out /\ r.out = MultiExpMSM(ps, ks).out

\* A call with two points and one scalar, none of them trivial.
C23_Witness ==
    /\ variant = "NaiveMSM" /\ pc = "done"
    /\ Len(lib.args.points) = 2 /\ Len(lib.args.scalars) = 1
    /\ lib.args.points[1] # AffZero /\ lib.args.scalars[1] = 2
    /\ lib.ret.err = "ErrLenMismatch"

\* C24. Butterfly copy-then-write: every step that completes a butterfly on a
\* pair (a, c) leaves old(a) + old(c) in buffer[a] and old(a) - old(c) in
\* buffer[c] and changes no other cell, where the old values are the copies
\* taken when the butterfly started, which are still the cells' contents
\* when it writes: in a goroutine (copy and write are separate steps, other
\* goroutines run in between), inline and in the serial variant.
C24_CopyThenWrite ==
    [][ LET Writes(a, c, ta, tc) ==
                /\ a \in DOMAIN buf /\ c \in DOMAIN buf /\ a # c
                /\ ta = buf[a] /\ tc = buf[c]
                /\ buf'[a] = AddAssign(ta, tc)
                /\ buf'[c] = AddAssign(ta, JacNeg(tc))
                /\ \A i \in DOMAIN buf \ {a, c} : buf'[i] = buf[i]
        IN  (variant \in Variants /\ hist'.finished # hist.finished) =>
               \/ \E g \in 1 .. Len(gor) :
                     /\ gor[g].st = "loaded" /\ gor'[g].st # "loaded"
                     /\ Writes(AIndex(gor[g].step, gor[g].b, gor[g].j),
                               CIndex(gor[g].step, gor[g].b, gor[g].j), gor[g].ta, gor[g].tc)
               \/ /\ pc = "inline"
                  /\ LET pos == Norm(mt.task, mt.b, mt.j)
                         a == AIndex(step, pos.b, pos.j)
                     IN  Writes(a, a + step, buf[a], buf[a + step])
               \/ /\ variant = "Serial" /\ pc = "stage"
                  /\ LET a == SerialAIdx(mt.k, mt.r)
                     IN  Writes(a, a + Pow2(mt.r), buf[a], buf[a + Pow2(mt.r)])
      ]_vars

\* The serial variant after the first butterfly of a 4-element run on two
\* different points: both cells hold new values made from the old ones.
C24_Witness ==
    /\ variant = "Serial" /\ pc = "stage" /\ n = 4 /\ mt.r = 0 /\ mt.k = 1
    /\ hist.stage0[0].Z # 0 /\ hist.stage0[1].Z # 0 /\ hist.stage0[0] # hist.stage0[1]
    /\ buf[0] = AddAssign(hist.stage0[0], hist.stage0[1])
    /\ buf[1] = AddAssign(hist.stage0[0], JacNeg(hist.stage0[1]))
    /\ buf[0] # hist.stage0[0] /\ buf[1] # hist.stage0[1]

\* C25. Index arithmetic and bounds: for every (b, j) of every task a stage
\* is given (2D-tiled and block-only), of every task still queued, of every
\* goroutine's and the calling thread's current position, and for every
\* access made, a = b*block + j and c = a + step satisfy 0 <= a < c < N.
C25_IndexBounds ==
    (variant \in Variants /\ Sched(variant) # "serial") =>
        LET InRange(s, b, j) ==
                LET a == AIndex(s, b, j)
                    c == CIndex(s, b, j)
                IN  a = b * (2 * s) + j /\ c = a + s /\ 0 <= a /\ a < c /\ c < n
            TaskInRange(s, t) ==
                \A b \in t.b0 .. (t.b1 - 1) : \A j \in t.j0 .. (t.j1 - 1) : InRange(s, b, j)
        IN  /\ pc \in {"inline", "wait"} =>
                  LET tasks == Plan(variant, n, step, workers).tasks
                  IN  \A x \in 1 .. Len(tasks) : TaskInRange(step, tasks[x])
            /\ \A x \in 1 .. Len(workCh) : TaskInRange(step, workCh[x])
            /\ \A g \in 1 .. Len(gor) :
                  gor[g].st \in {"run", "loaded"} => InRange(gor[g].step, gor[g].b, gor[g].j)
            /\ pc = "inline" =>
                  LET pos == Norm(mt.task, mt.b, mt.j)
                  IN  ~pos.end => InRange(step, pos.b, pos.j)
            /\ \A i \in DOMAIN hist.touch : \A x \in hist.touch[i] :
                  0 <= x.a /\ x.a < x.c /\ x.c < n

\* A goroutine of the block-only scheduler on the last pair of the buffer.
C25_Witness ==
    /\ variant = "ParBlock" /\ n = 16 /\ pc = "wait" /\ step = 2
    /\ \E g \in 1 .. Len(gor) :
          /\ gor[g].st = "loaded"
          /\ CIndex(gor[g].step, gor[g].b, gor[g].j) = n - 1
          /\ gor[g].task.b0 > 0

C27_ConversionRoundTrip ==
    (variant = "BatchJacToAffG1Par" /\ pc = "done") =>
        \A i \in 0 .. (n - 1) :
            /\ JacEqual(FromAffine(outAff[i]), buf[i])
            /\ buf[i].Z = 0 => (AffIsInfinity(outAff[i]) /\ FromAffine(outAff[i]).Z = 0)

C29_SerialPairing ==
    (variant = "Serial" /\ n > 0 /\ IsPow2Len(n)) =>
        LET Ser(r, cnt) == { << SerialAIdx(k, r), SerialAIdx(k, r) + Pow2(r) >> : k \in 0 .. (cnt - 1) }
            Blk(r) == { << AIndex(Pow2(r), b, j), CIndex(Pow2(r), b, j) >> :
                           b \in 0 .. ((n \div (2 * Pow2(r))) - 1), j \in 0 .. (Pow2(r) - 1) }
            accessed == { << x.a, x.c >> : x \in UNION { hist.touch[i] : i \in DOMAIN hist.touch } }
        IN  /\ \A r \in 0 .. (BitsLen(n) - 2) :
                  /\ Ser(r, n \div 2) = Blk(r)
                  /\ Cardinality(Ser(r, n \div 2)) = n \div 2
                  /\ Cardinality(Blk(r)) = n \div 2
            /\ (pc = "stage" /\ mt.k > 0) =>
                  /\ accessed = Ser(mt.r, mt.k)
                  /\ Cardinality(accessed) = mt.k
                  /\ accessed \subseteq Blk(mt.r)

\* The serial run in the middle of its third stage on 16 elements.
C29_Witness ==
    /\ variant = "Serial" /\ pc = "stage" /\ n = 16 /\ mt.r = 2 /\ mt.k = 6
    /\ hist.touch[13] # {} /\ hist.touch[10] = {}

\* C30. Task count and cover: in every stage of the 2D-tiled scheduler, for
\* every power-of-two N >= 2 and every worker count >= 1, there are at least
\* one and at most 3*workers tasks, and the (block, offset) rectangles of the
\* tasks together are exactly [0, nb) x [0, step).
C30_TaskCountAndCover ==
    (variant = "stageTasks" /\ mt.planStep > 0) =>
        LET Rect(t) == (t.b0 .. (t.b1 - 1)) \X (t.j0 .. (t.j1 - 1))
        IN  /\ n >= 2 /\ IsPow2Len(n) /\ workers >= 1
            /\ Len(workCh) >= 1
            /\ Len(workCh) <= PlanTarget
            /\ UNION { Rect(workCh[x]) : x \in 1 .. Len(workCh) }
                   = (0 .. (PlanNb - 1)) \X (0 .. (mt.planStep - 1))

\* The last stage of 1024 elements for 7 workers: one block, cut into as many
\* column tiles as the target allows, the last one shorter than the others.
C30_Witness ==
    /\ variant = "stageTasks" /\ n = 1024 /\ workers = 7 /\ mt.planStep = 512
    /\ PlanNb = 1 /\ Len(workCh) = PlanTarget
    /\ workCh[1].j1 - workCh[1].j0 = 25
    /\ workCh[Len(workCh)].j1 - workCh[Len(workCh)].j0 = 12

\* C31. Termination and pool lifetime: under fair scheduling every call, of
\* a transform or of parallelRange, eventually returns, and whenever it has
\* returned every goroutine it started has exited: the WaitGroup counter is
\* zero, the task queue is drained and no goroutine is left in a state other
\* than "exit".
C31_Termination ==
    /\ [](pc = "done" =>
            /\ wg = 0
            /\ workCh = << >>
            /\ \A g \in 1 .. Len(gor) : gor[g].st = "exit")
    /\ <>(pc = "done")

\* A returned 2D-tiled call on 16 elements whose stages started goroutines.
C31_Witness ==
    /\ pc = "done"
    /\ variant = "Par2D"
    /\ n = 16 /\ workers = 3 /\ err = "nil"
    /\ hist.spawned > 3

\* C32. Input untouched: at every moment of a call of a parallel variant
\* (Par, ParBatch and their Profile variants) the caller's vector holds the
\* elements it held when the call started, and a successful call returns a
\* vector of its own of the same length N; the serial variant returns no
\* vector, leaves the caller's vector alone until its last loop and then
\* overwrites it with the converted buffer.
C32_InputUntouched ==
    (variant \in Variants) =>
        /\ VLen(input) = n
        /\ variant # "Serial" =>
              /\ input = in0
              /\ (pc = "done" /\ err = "nil") => VLen(outAff) = n
        /\ variant = "Serial" =>
              /\ outAff = NilVec
              /\ pc \notin {"toAff", "done"} => input = in0
              /\ (pc = "done" /\ err = "nil" /\ n > 0) =>
                    \A i \in 0 .. (n - 1) : input[i] = FromJacobian(buf[i])

\* A returned parallel call on 16 elements whose result differs from the
\* input in every element, the input being what it was.
C32_Witness ==
    /\ pc = "done" /\ variant = "ParBatch" /\ n = 16 /\ err = "nil"
    /\ input = in0
    /\ \A i \in 0 .. (n - 1) : outAff[i] # input[i]

\* C33. Block-only scheduler: with eff = min(workers, nb), a stage runs on
\* the calling thread when eff <= 1 or nb <= 1 and is otherwise cut into at
\* most eff chunks of ceil(nb/eff) blocks (the last one may be shorter), one
\* goroutine each; every block of the stage lies in exactly one chunk, each
\* chunk covers the whole of [0, step), a dispatched stage's goroutines hold
\* the chunks in order; and the finished transform returns the vector the
\* 2D-tiled scheduler returns for the same input and worker count.
C33_BlockScheduler ==
    (variant \in Variants /\ Sched(variant) = "block" /\ workers >= 1) =>
        /\ \A r \in 0 .. (NumStages(n) - 1) :
              LET s == Pow2(r)
                  nb == n \div (2 * s)
                  eff == Min(workers, nb)
                  chunk == (nb + eff - 1) \div eff
                  plan == Plan(variant, n, s, workers)
                  In(b) == { x \in 1 .. Len(plan.tasks) : plan.tasks[x].b0 <= b /\ b < plan.tasks[x].b1 }
              IN  /\ plan.inline = (eff <= 1 \/ nb <= 1)
                  /\ \A b \in 0 .. (nb - 1) : Cardinality(In(b)) = 1
                  /\ \A x \in 1 .. Len(plan.tasks) :
                        /\ plan.tasks[x].j0 = 0 /\ plan.tasks[x].j1 = s
                        /\ plan.tasks[x].b0 < plan.tasks[x].b1 /\ plan.tasks[x].b1 <= nb
                  /\ ~plan.inline =>
                        /\ Len(plan.tasks) \in 2 .. eff
                        /\ plan.W = Len(plan.tasks)
                        /\ \A x \in 1 .. Len(plan.tasks) :
                              /\ plan.tasks[x].b0 = (x - 1) * chunk
                              /\ x < Len(plan.tasks) => plan.tasks[x].b1 - plan.tasks[x].b0 = chunk
        /\ pc = "wait" =>
              LET tasks == Plan(variant, n, step, workers).tasks
              IN  /\ Len(gor) = Len(tasks)
                  /\ \A g \in 1 .. Len(gor) : gor[g].task = tasks[g]
        /\ (pc = "done" /\ err = "nil" /\ n > 0) =>
              outAff = ParResult(IF variant = "ParBlock" THEN "Par2D" ELSE "ParBatchProfile",
                                 in0, workers)

\* A finished block-only run on 16 elements with 3 workers: its third stage
\* had 4 blocks in 2 chunks of 2, fewer chunks than eff.
C33_Witness ==
    /\ pc = "done" /\ variant = "ParBlock" /\ n = 16 /\ workers = 3 /\ err = "nil"
    /\ Len(Plan(variant, n, 2, workers).tasks) = 2
    /\ Len(Plan(variant, n, 1, workers).tasks) = 3
    /\ hist.spawned = 3 + 2 + 2
    /\ \E i \in 0 .. (n - 1) : outAff[i] # AffZero

C35_RandomPar ==
    (variant \in {"RandomScalarsPar", "RandomPointsG1Par"}) =>
        LET a == lib.args
            h == lib.ret
            Distinct(q) == \A x, y \in 1 .. Len(q) : x # y => q[x].i # q[y].i
            Value(i) == IF variant = "RandomScalarsPar" THEN a.draws[i].val
                        ELSE PointOf[a.draws[i].val]
        IN  IF a.n <= 0
            THEN /\ gor = << >> /\ wg = 0 /\ h.sent = << >>
                 /\ pc = "done" => (outAff = << >> /\ err = "nil")
            ELSE /\ h.sent = [k \in 1 .. Len(h.sent) |-> k - 1]
                 /\ Len(h.sent) <= a.n
                 /\ Len(workCh) <= 2 * workers
                 /\ Distinct(h.taken) /\ Distinct(h.writes)
                 /\ \A x \in 1 .. Len(h.taken) : h.taken[x].i \in { h.sent[k] : k \in 1 .. Len(h.sent) }
                 /\ \A x \in 1 .. Len(h.writes) :
                       \E y \in 1 .. Len(h.taken) : h.taken[y] = h.writes[x]
                 /\ pc = "done" =>
                       /\ { h.taken[x].i : x \in 1 .. Len(h.taken) } = 0 .. (a.n - 1)
                       /\ workCh = << >> /\ wg = 0
                       /\ Len(gor) = workers
                       /\ \A g \in 1 .. Len(gor) : gor[g].st = "exit"
                       /\ IF h.errs # << >>
                          THEN outAff = NilVec /\ err = << "rand", Head(h.errs) >>
                          ELSE /\ err = "nil"
                               /\ VLen(outAff) = a.n
                               /\ \A i \in 0 .. (a.n - 1) : outAff[i] = Value(i)

\* Three points asked of two workers, both of which received indices; two
\* draws failed, and the error returned is that of the later index, recorded
\* first.
C35_Witness ==
    /\ variant = "RandomPointsG1Par" /\ pc = "done"
    /\ lib.args.n = 3 /\ workers = 2
    /\ { lib.ret.taken[x].g : x \in 1 .. Len(lib.ret.taken) } = {1, 2}
    /\ Len(lib.ret.errs) = 2 /\ lib.ret.errs[1] > lib.ret.errs[2]
    /\ Len(lib.ret.writes) = 1
    /\ outAff = NilVec

\* C36. Circuit row gadget: for every row index, given to computeFWHTRow as
\* its bits least significant first, the gadget returns the point that
\* hadamardTransformRow returns for that row, the sum over j of
\* (-1)^popcount(index AND j) * G[j].
C36_RowGadget ==
    (variant = "computeFWHTRow" /\ pc = "done") =>
        /\ Len(lib.ret.idxBits) = lib.args.nbDigits
        /\ lib.ret.circuit = lib.ret.reference

\* Row 6 (bits 0, 1, 1, 0) of a vector of 16 points with the identity and
\* equal points among them: the gadget subtracts in its second and third
\* stages only, and the row's sum is not the identity.
C36_Witness ==
    /\ variant = "computeFWHTRow" /\ pc = "done"
    /\ lib.args.nbDigits = 4 /\ lib.args.index = 6
    /\ lib.ret.idxBits = << 0, 1, 1, 0 >>
    /\ \E i \in 0 .. 15 : lib.args.g[i] = AffZero
    /\ \E i \in 0 .. 14 : lib.args.g[i] = lib.args.g[i + 1] /\ lib.args.g[i] # AffZero
    /\ Cardinality({ lib.args.g[i] : i \in 0 .. 15 }) > 4
    /\ lib.ret.circuit = lib.ret.reference
    /\ lib.ret.circuit # AffZero

====
